---- MODULE Spec2Model ----
(***************************************************************************)
(* Model of the PDF -> vector conversion engine of PdfExtract:             *)
(*   src/PdfExtract/pdftodxf_dialog.py    (clip_line_to_rect, the dialog's *)
(*       convert_pdf_page_to_dxf_direct, PdfToVectorTask)                  *)
(*   src/PdfExtract/pdf_to_dxf_algorithm.py (PdfToDxfAlgorithm)            *)
(*                                                                         *)
(* Numbers.  Page coordinates are exact rationals <<n, d>> (d > 0, lowest  *)
(* terms).  Code that is generic in the type of its numbers                *)
(* (clip_line_to_rect, the size filter, the containment tests) is modelled *)
(* in exact arithmetic.  Code that forces Python floats (float(...), the   *)
(* 0.0 offsets, int / int) is modelled with a binary floating point of     *)
(* MantBits significant bits, round-half-even, unbounded exponent: the     *)
(* IEEE double scaled down.                                                *)
(***************************************************************************)
EXTENDS Integers, Sequences, FiniteSets, TLC

VARIABLES
    \* ---- one call of clip_line_to_rect ----
    args,       \* the call's arguments [x1, y1, x2, y2, rect]
    clip,       \* the call's locals [x1, y1, x2, y2, code1, code2, ret, nrepl]
    \* ---- calls of PdfToDxfAlgorithm._simple_transform ----
    st_point,       \* argument point of the next call
    st_page_height, \* argument page_height
    st_offset_x,    \* argument offset_x
    st_offset_y,    \* argument offset_y
    st_results,     \* the values returned so far, each fed to the next call
    \* ---- the size filter applied to one drawing item ----
    sf_item,        \* the drawing item
    sf_results,     \* the pairs <<min_size, outcome>> obtained so far
    \* ---- the emission of one page ----
    em_fn,          \* the emitter
    em_crop,        \* crop_rect: a fitz.Rect or None
    em_min_size,    \* min_size
    em_skip_curves, \* skip_curves
    em_center,      \* canvas_extent.center(), None without canvas extent
    em_page,        \* page.get_drawings()
    em_spans,       \* the spans of page.get_text("dict")
    em_pc,          \* "geometry", "text", "done", or "raised"
    em_d,           \* position in the drawing list
    em_i,           \* position in the drawing's items, 0 before the first
    em_s,           \* position in the span list
    em_geom,        \* the geometry features written
    em_text,        \* the text features written
    \* ---- a run of PdfToVectorTask ----
    run_req,        \* pdf_paths (as docs), page_from, page_to, out_fmt, include_*
    run_canceled,   \* cancellation has been requested
    run_pc,         \* where run is
    run_k,          \* position in pdf_paths of the pre-count loop
    run_files,      \* files_to_process
    run_total,      \* total_progress_steps
    run_processed,  \* processed_steps
    run_f,          \* position in files_to_process
    run_i,          \* i of the page loop
    run_generated,  \* self.generated
    run_progress,   \* the values passed to setProgress, in order
    run_error,      \* self.error: "none", or the call the exception came from
    run_result,     \* the value run returned: "none" before it returns
    run_open,       \* the positions in pdf_paths of the documents open
    run_reported,   \* what finished reported: "none", "failure", "completed"
    run_warnings,   \* the number of warnings logged
    \* ---- a call of PdfToDxfAlgorithm.processAlgorithm ----
    alg_req,         \* MISSING_DEPS, the parameters, the file system, fitz
    alg_pc,          \* where processAlgorithm is
    alg_output_path, \* the local output_path
    alg_exc,         \* the QgsProcessingException raised, "none" if none
    alg_cause,       \* the exception caught by "except Exception as e"
    alg_converted,   \* the body of convert_pdf_to_vector converted the pages
    alg_ret          \* the value returned: "none", or the path under OUTPUT

clipVars == <<args, clip>>
stVars == <<st_point, st_page_height, st_offset_x, st_offset_y, st_results>>

sfVars == <<sf_item, sf_results>>

emVars == <<em_fn, em_crop, em_min_size, em_skip_curves, em_center, em_page,
           em_spans, em_pc, em_d, em_i, em_s, em_geom, em_text>>

runVars == <<run_req, run_canceled, run_pc, run_k, run_files, run_total,
            run_processed, run_f, run_i, run_generated, run_progress,
            run_error, run_result, run_open, run_reported, run_warnings>>

algVars == <<alg_req, alg_pc, alg_output_path, alg_exc, alg_cause, alg_converted, alg_ret>>

vars == <<clipVars, stVars, sfVars, emVars, runVars, algVars>>

-----------------------------------------------------------------------------
(* Bounds of the model *)

\* grid coordinates run over -1 .. MaxCoord (plus the spec's example values)
MaxCoord == 3

\* significant bits of the scaled-down binary floating point
MantBits == 5

-----------------------------------------------------------------------------
(* Exact rational arithmetic: Python's +, -, *, / and comparisons on numbers *)

Abs(n) == IF n < 0 THEN -n ELSE n

\* Intermediate values are bound through one-element sets, so that each is
\* computed once wherever the operators are evaluated.
RECURSIVE GCD(_, _)
GCD(a, b) == IF b = 0 THEN a ELSE CHOOSE r \in {GCD(v[1], v[2]) : v \in {<<b, a % b>>}} : TRUE

NormOf(n, d) ==
    IF n = 0 THEN <<0, 1>>
    ELSE CHOOSE r \in {<<((IF d < 0 THEN -1 ELSE 1) * n) \div g, ((IF d < 0 THEN -1 ELSE 1) * d) \div g>> :
                          g \in {GCD(Abs(n), Abs(d))}} : TRUE

Norm(n, d) == CHOOSE r \in {NormOf(v[1], v[2]) : v \in {<<n, d>>}} : TRUE

Rat(n) == <<n, 1>>

RAdd(a, b) == Norm(a[1] * b[2] + b[1] * a[2], a[2] * b[2])
RSub(a, b) == Norm(a[1] * b[2] - b[1] * a[2], a[2] * b[2])
RMul(a, b) == Norm(a[1] * b[1], a[2] * b[2])
\* a / b, b # 0 (Python raises ZeroDivisionError on b = 0: see the callers)
RDiv(a, b) == Norm(a[1] * b[2], a[2] * b[1])
RLt(a, b) == a[1] * b[2] < b[1] * a[2]
RLe(a, b) == a[1] * b[2] <= b[1] * a[2]
RAbs(a) == <<Abs(a[1]), a[2]>>
RMax(a, b) == IF RLt(a, b) THEN b ELSE a
RMin(a, b) == IF RLt(b, a) THEN b ELSE a
RZero(a) == a[1] = 0

-----------------------------------------------------------------------------
(* Python floats: binary floating point of MantBits significant bits *)

RECURSIVE Pow2(_)
Pow2(k) == IF k = 0 THEN 1 ELSE 2 * Pow2(k - 1)

\* least k >= 0 with a < 2^MantBits * d * 2^k
RECURSIVE ExpDown(_, _, _)
ExpDown(a, d, k) == IF a < Pow2(MantBits) * d * Pow2(k) THEN k ELSE ExpDown(a, d, k + 1)

\* least k >= 0 with a * 2^k >= 2^(MantBits-1) * d
RECURSIVE ExpUp(_, _, _)
ExpUp(a, d, k) == IF a * Pow2(k) >= Pow2(MantBits - 1) * d THEN k ELSE ExpUp(a, d, k + 1)

\* num / den rounded to the nearest integer, ties to even
RoundHalfEven(num, den) ==
    LET q == num \div den
        r == num % den
    IN  IF 2 * r > den \/ (2 * r = den /\ q % 2 = 1) THEN q + 1 ELSE q

\* the float nearest to the rational q (round-half-even)
FRoundOf(a, d, s) ==
    IF a = 0 THEN <<0, 1>>
    ELSE IF a >= Pow2(MantBits) * d
         THEN CHOOSE r \in {Norm(s * RoundHalfEven(a, d * Pow2(k)) * Pow2(k), 1) :
                                k \in {ExpDown(a, d, 0)}} : TRUE
         ELSE CHOOSE r \in {Norm(s * RoundHalfEven(a * Pow2(k), d), Pow2(k)) :
                                k \in {ExpUp(a, d, 0)}} : TRUE

FRound(q) ==
    CHOOSE r \in {FRoundOf(Abs(v[1]), v[2], IF v[1] < 0 THEN -1 ELSE 1) : v \in {q}} : TRUE

\* float + float, float - float, float * float, float / float
FAdd(a, b) == FRound(RAdd(a, b))
FSub(a, b) == FRound(RSub(a, b))
FMul(a, b) == FRound(RMul(a, b))
FDiv(a, b) == FRound(RDiv(a, b))

-----------------------------------------------------------------------------
(* Python values met where a point is expected.  A value is a record      *)
(* [kind, c]: kind "tuple" is a tuple or list with the elements c, kind    *)
(* "Point" a fitz.Point (indexable, attributes x and y, not a tuple),      *)
(* kind "obj" an object with attributes x = c[1], y = c[2] and no          *)
(* indexing, kind "Rect" a fitz.Rect (x0, y0, x1, y1), kind "none" is      *)
(* None.  An element is a rational, or NotANumber (denominator 0) for a    *)
(* value that float() and arithmetic reject.                               *)

NotANumber == <<0, 0>>
IsNumber(v) == v[2] # 0

SeqPoint(c) == [kind |-> "tuple", c |-> c]
ObjPoint(x, y) == [kind |-> "obj", c |-> <<x, y>>]
NonePoint == [kind |-> "none", c |-> <<>>]
\* the tuple (x, y) of two numbers
XY(x, y) == SeqPoint(<<x, y>>)

PtPoint(x, y) == [kind |-> "Point", c |-> <<x, y>>]
RectVal(a, b, c, d) == [kind |-> "Rect", c |-> <<Rat(a), Rat(b), Rat(c), Rat(d)>>]

\* bool(v): None and the empty tuple are false, and so is a fitz.Point or a
\* fitz.Rect whose coordinates are all 0
Truthy(v) ==
    CASE v.kind = "none" -> FALSE
      [] v.kind = "tuple" -> Len(v.c) > 0
      [] v.kind \in {"Point", "Rect"} -> \E i \in 1..Len(v.c) : v.c[i] # Rat(0)
      [] OTHER -> TRUE

\* v[i] (i from 0) succeeds and gives a number
NumAt(v, i) ==
    v.kind \in {"tuple", "Point", "Rect"} /\ Len(v.c) >= i + 1 /\ IsNumber(v.c[i + 1])

\* point[0], point[1] succeed and give numbers
IndexableXY(point) ==
    point.kind \in {"tuple", "Point"} /\ Len(point.c) >= 2 /\ IsNumber(point.c[1]) /\ IsNumber(point.c[2])

-----------------------------------------------------------------------------
(* Drawing items of page.get_drawings(): the tuple (cmd, a[1], a[2], ...) is *)
(* the record [cmd, a]; the empty tuple is EmptyItem.                        *)

Item(cmd, a) == [cmd |-> cmd, a |-> a]
EmptyItem == [cmd |-> "", a |-> <<>>]
\* item[k] exists (k >= 1)
HasArg(item, k) == item # EmptyItem /\ Len(item.a) >= k

\* the rational coordinates of a well-formed point value
PX(v) == v.c[1]
PY(v) == v.c[2]

\* max and min of a non-empty set of rationals
SetMax(S) == CHOOSE m \in S : \A v \in S : RLe(v, m)
SetMin(S) == CHOOSE m \in S : \A v \in S : RLe(m, v)

-----------------------------------------------------------------------------
(* Rectangles (fitz.Rect): records of rationals *)

MkRect(a, b, c, d) == [x0 |-> Rat(a), y0 |-> Rat(b), x1 |-> Rat(c), y1 |-> Rat(d)]

-----------------------------------------------------------------------------------------------------------------------------------------------------
(* clip_line_to_rect: pdftodxf_dialog.py 49-109.  The locals of a call are *)
(* the record clip = [x1, y1, x2, y2, code1, code2, ret, nrepl]: ret is    *)
(* "running", "None", "tuple" (x1, y1, x2, y2 are returned) or             *)
(* "ZeroDivisionError"; nrepl counts the endpoint replacements made.       *)

INSIDE == 0
LEFT == 1
RIGHT == 2
BOTTOM == 4
TOP == 8

\* code & bit # 0, for bit one of LEFT, RIGHT, BOTTOM, TOP
HasBit(code, bit) == (code \div bit) % 2 = 1

\* code1 & code2
BitAnd(a, b) ==
    (IF HasBit(a, LEFT) /\ HasBit(b, LEFT) THEN LEFT ELSE 0)
  + (IF HasBit(a, RIGHT) /\ HasBit(b, RIGHT) THEN RIGHT ELSE 0)
  + (IF HasBit(a, BOTTOM) /\ HasBit(b, BOTTOM) THEN BOTTOM ELSE 0)
  + (IF HasBit(a, TOP) /\ HasBit(b, TOP) THEN TOP ELSE 0)

\* compute_code with the RIGHT test made against rect.x0
compute_codeM(x, y, rect) ==
    (IF RLt(x, rect.x0) THEN LEFT ELSE IF RLt(rect.x0, x) THEN RIGHT ELSE INSIDE)
  + (IF RLt(y, rect.y0) THEN BOTTOM ELSE IF RLt(rect.y1, y) THEN TOP ELSE INSIDE)

compute_code(x, y, rect) ==
    (IF RLt(x, rect.x0) THEN LEFT ELSE IF RLt(rect.x1, x) THEN RIGHT ELSE INSIDE)
  + (IF RLt(y, rect.y0) THEN BOTTOM ELSE IF RLt(rect.y1, y) THEN TOP ELSE INSIDE)

\* code_out = code1 if code1 != 0 else code2
code_out(c) == IF c.code1 # 0 THEN c.code1 ELSE c.code2

\* the divisor of the branch the loop takes for code_out
ClipDivisor(c) ==
    IF HasBit(code_out(c), TOP) \/ HasBit(code_out(c), BOTTOM)
    THEN RSub(c.y2, c.y1) ELSE RSub(c.x2, c.x1)

\* x = x1 + (x2 - x1) * (by - y1) / (y2 - y1)
InterpX(c, by) ==
    RAdd(c.x1, RDiv(RMul(RSub(c.x2, c.x1), RSub(by, c.y1)), RSub(c.y2, c.y1)))
\* y = y1 + (y2 - y1) * (bx - x1) / (x2 - x1)
InterpY(c, bx) ==
    RAdd(c.y1, RDiv(RMul(RSub(c.y2, c.y1), RSub(bx, c.x1)), RSub(c.x2, c.x1)))

\* ClipIntersection with the TOP branch solving for rect.y0
ClipIntersectionM(c, rect) ==
    IF HasBit(code_out(c), TOP) THEN <<InterpX(c, rect.y0), rect.y0>>
    ELSE IF HasBit(code_out(c), BOTTOM) THEN <<InterpX(c, rect.y0), rect.y0>>
    ELSE IF HasBit(code_out(c), RIGHT) THEN <<rect.x1, InterpY(c, rect.x1)>>
    ELSE <<rect.x0, InterpY(c, rect.x0)>>

\* the intersection point <<x, y>> the loop computes for code_out
ClipIntersection(c, rect) ==
    IF HasBit(code_out(c), TOP) THEN <<InterpX(c, rect.y1), rect.y1>>
    ELSE IF HasBit(code_out(c), BOTTOM) THEN <<InterpX(c, rect.y0), rect.y0>>
    ELSE IF HasBit(code_out(c), RIGHT) THEN <<rect.x1, InterpY(c, rect.x1)>>
    ELSE <<rect.x0, InterpY(c, rect.x0)>>

\* the locals on reaching the loop: code1, code2 computed
ClipEnter(x1, y1, x2, y2, rect) ==
    [x1 |-> x1, y1 |-> y1, x2 |-> x2, y2 |-> y2,
     code1 |-> compute_code(x1, y1, rect), code2 |-> compute_code(x2, y2, rect),
     ret |-> "running", nrepl |-> 0]

\* the loop body below the two tests: replace the outside point by the
\* intersection and recompute its code
ClipReplaced(c, rect) ==
    IF RZero(ClipDivisor(c))
    THEN [c EXCEPT !.ret = "ZeroDivisionError"]
    ELSE LET p == ClipIntersection(c, rect)
         IN  IF code_out(c) = c.code1
             THEN [c EXCEPT !.x1 = p[1], !.y1 = p[2],
                            !.code1 = compute_code(p[1], p[2], rect),
                            !.nrepl = c.nrepl + 1]
             ELSE [c EXCEPT !.x2 = p[1], !.y2 = p[2],
                            !.code2 = compute_code(p[1], p[2], rect),
                            !.nrepl = c.nrepl + 1]

\* one pass of the loop without "if code1 & code2: return None"
ClipPassM(c, rect) ==
    IF c.code1 = 0 /\ c.code2 = 0 THEN [c EXCEPT !.ret = "tuple"]
    ELSE ClipReplaced(c, rect)

\* one pass of "while True"
ClipPass(c, rect) ==
    IF c.code1 = 0 /\ c.code2 = 0 THEN [c EXCEPT !.ret = "tuple"]
    ELSE IF BitAnd(c.code1, c.code2) # 0 THEN [c EXCEPT !.ret = "None"]
    ELSE ClipReplaced(c, rect)

\* the loop run to its return
RECURSIVE ClipLoop(_, _)
ClipLoop(c, rect) == IF c.ret # "running" THEN c ELSE ClipLoop(ClipPass(c, rect), rect)

\* the call as a function of its arguments: the locals at the return
clip_line_to_rect(x1, y1, x2, y2, rect) == ClipLoop(ClipEnter(x1, y1, x2, y2, rect), rect)

\* if code1 == 0 and code2 == 0: return (x1, y1, x2, y2)
ClipAccept ==
    /\ clip.ret = "running"
    /\ clip.code1 = 0 /\ clip.code2 = 0
    /\ clip' = ClipPass(clip, args.rect)
    /\ UNCHANGED args
    /\ UNCHANGED <<stVars, sfVars, emVars, runVars, algVars>>

\* if code1 & code2: return None
ClipReject ==
    /\ clip.ret = "running"
    /\ ~(clip.code1 = 0 /\ clip.code2 = 0)
    /\ BitAnd(clip.code1, clip.code2) # 0
    /\ clip' = ClipPass(clip, args.rect)
    /\ UNCHANGED args
    /\ UNCHANGED <<stVars, sfVars, emVars, runVars, algVars>>

\* one pass of the loop body below the two tests: replace the outside point
ClipReplace ==
    /\ clip.ret = "running"
    /\ ~(clip.code1 = 0 /\ clip.code2 = 0)
    /\ BitAnd(clip.code1, clip.code2) = 0
    /\ clip' = ClipPass(clip, args.rect)
    /\ UNCHANGED args
    /\ UNCHANGED <<stVars, sfVars, emVars, runVars, algVars>>

\* coordinates of the segments tried: the grid and the spec's example values
Coords == (-1 .. MaxCoord) \cup {8, 10, 20, 30}

\* crop rectangles tried (x0 <= x1, y0 <= y1), among them the spec's (2,2,8,8)
CropXRanges == {<<2, 8>>, <<1, 2>>, <<2, 2>>}
CropYRanges == {<<2, 8>>, <<1, 3>>, <<3, 3>>}
CropRects == {MkRect(xr[1], yr[1], xr[2], yr[2]) : xr \in CropXRanges, yr \in CropYRanges}

-----------------------------------------------------------------------------
(* The size filter: pdftodxf_dialog.py 963-987 (and the same lines at      *)
(* 144-173, pdf_to_dxf_algorithm.py 374-396 and 569-591).  The outcome is  *)
(* "pass", "reject" (pass_size_check = False) or "raise" (an exception     *)
(* leaves the filter; what becomes of it depends on the caller's try).     *)

\* the truthy control points of a curve item: [pt ... for pt in item[1:] if pt]
TruthyArgs(item) == {i \in 1..Len(item.a) : Truthy(item.a[i])}

\* the filter's comparison with its sense inverted
SizeTooSmallM(bbox_w, bbox_h, min_size) == RLt(min_size, RMax(bbox_w, bbox_h))

\* max(bbox_w, bbox_h) < min_size
SizeTooSmall(bbox_w, bbox_h, min_size) == RLt(RMax(bbox_w, bbox_h), min_size)

\* <<bbox_w, bbox_h>> of the item, or <<NotANumber, NotANumber>> when computing
\* them raises
SizeBBox(item) ==
    CASE item.cmd = "l" ->
            IF /\ HasArg(item, 2)
               /\ NumAt(item.a[1], 0) /\ NumAt(item.a[2], 0)
               /\ NumAt(item.a[1], 1) /\ NumAt(item.a[2], 1)
            THEN <<RAbs(RSub(PX(item.a[1]), PX(item.a[2]))),
                   RAbs(RSub(PY(item.a[1]), PY(item.a[2])))>>
            ELSE <<NotANumber, NotANumber>>
      [] item.cmd = "c" ->
            IF \A i \in TruthyArgs(item) : NumAt(item.a[i], 0) /\ NumAt(item.a[i], 1)
            THEN IF TruthyArgs(item) = {}
                 THEN <<Rat(0), Rat(0)>>
                 ELSE LET xs == {PX(item.a[i]) : i \in TruthyArgs(item)}
                          ys == {PY(item.a[i]) : i \in TruthyArgs(item)}
                      IN  <<RSub(SetMax(xs), SetMin(xs)), RSub(SetMax(ys), SetMin(ys))>>
            ELSE <<NotANumber, NotANumber>>
      [] item.cmd = "re" ->
            IF HasArg(item, 1) /\ item.a[1].kind = "Rect"
            THEN <<RSub(item.a[1].c[3], item.a[1].c[1]),
                   RSub(item.a[1].c[4], item.a[1].c[2])>>
            ELSE <<NotANumber, NotANumber>>
      [] OTHER -> <<Rat(0), Rat(0)>>

\* pass_size_check of the item (cmd = item[0] has succeeded)
SizeFilter(item, min_size) ==
    IF ~RLt(Rat(0), min_size) THEN "pass"
    ELSE LET bbox == SizeBBox(item)
         IN  IF ~IsNumber(bbox[1]) THEN "raise"
             ELSE IF SizeTooSmall(bbox[1], bbox[2], min_size) THEN "reject"
             ELSE "pass"

\* the points, lines, curves, rectangles and other items tried
ItemXs == {0, 1, 5}
ItemPts == {PtPoint(Rat(a), Rat(b)) : a \in ItemXs, b \in ItemXs}
CurvePts == {PtPoint(Rat(0), Rat(0)), PtPoint(Rat(1), Rat(5)), PtPoint(Rat(5), Rat(1))}
LineItems == {Item("l", <<p, q>>) : p \in ItemPts, q \in ItemPts}
CurveItems ==
    {Item("c", <<p, q>>) : p \in CurvePts, q \in CurvePts}
    \cup {Item("c", <<p, q, r, p>>) : p \in CurvePts, q \in CurvePts, r \in CurvePts}
    \cup {Item("c", <<PtPoint(Rat(1), Rat(1))>>)}
RectItems ==
    {Item("re", <<RectVal(1, 1, 5, 5)>>), Item("re", <<RectVal(0, 0, 1, 5)>>),
     Item("re", <<RectVal(0, 1, 5, 1)>>), Item("re", <<RectVal(5, 5, 5, 5)>>),
     Item("re", <<RectVal(0, 0, 5, 5)>>)}
OtherItems ==
    {Item("qu", <<PtPoint(Rat(0), Rat(0)), PtPoint(Rat(5), Rat(5))>>),
     Item("qu", <<XY(Rat(1), Rat(1)), XY(Rat(5), Rat(1))>>)}
\* items a decoder cannot be relied on not to produce: a point missing, None
\* or of the wrong type
MalformedItems ==
    {EmptyItem,
     Item("l", <<PtPoint(Rat(0), Rat(0))>>),
     Item("l", <<NonePoint, PtPoint(Rat(5), Rat(5))>>),
     Item("l", <<PtPoint(Rat(0), Rat(0)), ObjPoint(Rat(5), Rat(5))>>),
     Item("c", <<PtPoint(Rat(1), Rat(1)), NonePoint, PtPoint(Rat(5), Rat(5))>>),
     Item("c", <<XY(Rat(1), Rat(1)), SeqPoint(<<Rat(5)>>)>>),
     Item("re", <<>>),
     Item("re", <<XY(Rat(1), Rat(1))>>)}
Items == LineItems \cup CurveItems \cup RectItems \cup OtherItems \cup MalformedItems

\* the min_size values tried
MinSizes == {Rat(0), <<1, 2>>, Rat(1), Rat(4), Rat(5), Rat(6)}

\* the filter applied to sf_item with one more min_size
ApplySizeFilter ==
    /\ \E t \in MinSizes :
          /\ \A r \in sf_results : r[1] # t
          /\ sf_results' = sf_results \cup {<<t, SizeFilter(sf_item, t)>>}
    /\ UNCHANGED sf_item
    /\ UNCHANGED <<clipVars, stVars, emVars, runVars, algVars>>

-----------------------------------------------------------------------------
(* PdfToDxfAlgorithm._simple_transform: pdf_to_dxf_algorithm.py 792-812 *)

\* try: x = float(point[0]); y = float(point[1])
\* except: try: x = float(point.x); y = float(point.y)
\*         except: x, y = 0.0, 0.0
PointXY(point) ==
    IF IndexableXY(point)
    THEN <<FRound(point.c[1]), FRound(point.c[2])>>
    ELSE IF point.kind = "obj" /\ IsNumber(point.c[1]) /\ IsNumber(point.c[2])
    THEN <<FRound(point.c[1]), FRound(point.c[2])>>
    ELSE <<Rat(0), Rat(0)>>

\* _simple_transform with the flip written page_height + y
simple_transformM(point, page_height, offset_x, offset_y) ==
    LET x == PointXY(point)[1]
        y == PointXY(point)[2]
        new_y == FAdd(page_height, y)
    IN  <<FAdd(x, offset_x), FAdd(new_y, offset_y)>>

\* new_y = page_height - y; return (x + offset_x, new_y + offset_y)
simple_transform(point, page_height, offset_x, offset_y) ==
    LET x == PointXY(point)[1]
        y == PointXY(point)[2]
        new_y == FSub(page_height, y)
        final_x == FAdd(x, offset_x)
        final_y == FAdd(new_y, offset_y)
    IN  <<final_x, final_y>>

\* number of successive calls of _simple_transform followed
MaxCalls == 2

\* one call: on st_point first, then on the tuple the call before returned
SimpleTransform ==
    /\ Len(st_results) < MaxCalls
    /\ LET point == IF st_results = <<>> THEN st_point
                    ELSE XY(st_results[Len(st_results)][1], st_results[Len(st_results)][2])
       IN  st_results' = Append(st_results,
               simple_transform(point, st_page_height, st_offset_x, st_offset_y))
    /\ UNCHANGED <<st_point, st_page_height, st_offset_x, st_offset_y>>
    /\ UNCHANGED <<clipVars, sfVars, emVars, runVars, algVars>>

\* float values of the points and heights tried
StVals == {FRound(Rat(0)), FRound(<<1, 4>>), FRound(Rat(1)), FRound(Rat(3)), FRound(Rat(20))}
StHeights == {FRound(Rat(12)), FRound(Rat(20))}
StOffsets == {FRound(Rat(0)), FRound(Rat(3))}

\* the points tried: tuples of two floats, and the values the fallbacks meet
StPoints ==
    {XY(a, b) : a \in StVals, b \in StVals}
    \cup {NonePoint, SeqPoint(<<Rat(1)>>), SeqPoint(<<Rat(1), NotANumber>>),
          ObjPoint(Rat(1), Rat(3)), ObjPoint(NotANumber, Rat(3))}

-----------------------------------------------------------------------------
(* Emission of one page.  The page is its drawing list (page.get_drawings(): *)
(* drawings [rect, items]) and its text spans (the spans of the blocks and   *)
(* lines of page.get_text("dict", ...), each [text, origin, bbox], origin or  *)
(* bbox None when the span has no such key).  em_fn names the emitter:       *)
(*   "write_geometry"         PdfToVectorTask._write_geometry followed by    *)
(*                            PdfToVectorTask._write_text (tabular output)   *)
(*   "dxf_direct"             convert_pdf_page_to_dxf_direct of the dialog   *)
(*   "create_geometry_layer"  PdfToDxfAlgorithm._create_geometry_layer       *)
(*                            followed by _create_text_layer                 *)
(*   "alg_dxf_direct"         PdfToDxfAlgorithm.convert_pdf_page_to_dxf_direct *)
(* A written geometry feature is [type, pts, d, i]: d and i are the          *)
(* positions of the drawing and of the item it was written for.              *)

\* page.rect.width and page.rect.height of the page emitted
PageW == Rat(12)
PageH == Rat(20)

Drawing(rect, items) == [rect |-> rect, items |-> items]
Span(text, origin, bbox) == [text |-> text, origin |-> origin, bbox |-> bbox]

NoFeature == [type |-> "none", pts |-> <<>>]
Raised == [type |-> "raise", pts |-> <<>>]
Feature(type, pts) == [type |-> type, pts |-> pts]

\* the fitz.Rect value as the rect argument of clip_line_to_rect
AsRect(v) == [x0 |-> v.c[1], y0 |-> v.c[2], x1 |-> v.c[3], y1 |-> v.c[4]]

\* v[0] and v[1] are numbers
HasXY(v) == NumAt(v, 0) /\ NumAt(v, 1)

\* ox, oy of _write_geometry: 0.0, 0.0, or the canvas centre minus half the page
WriteGeometryOffset(center, page_w, page_h) ==
    IF center.kind = "none" THEN <<Rat(0), Rat(0)>>
    ELSE <<FSub(center.c[1], FDiv(page_w, Rat(2))),
           FSub(center.c[2], FDiv(page_h, Rat(2)))>>

\* ox, oy of _write_text computed from the page width for both axes
WriteTextOffsetM(center, page_w, page_h) ==
    IF center.kind = "none" THEN <<Rat(0), Rat(0)>>
    ELSE <<FSub(center.c[1], FDiv(page_w, Rat(2))),
           FSub(center.c[2], FDiv(page_w, Rat(2)))>>

\* ox, oy of _write_text
WriteTextOffset(center, page_w, page_h) ==
    IF center.kind = "none" THEN <<Rat(0), Rat(0)>>
    ELSE <<FSub(center.c[1], FDiv(page_w, Rat(2))),
           FSub(center.c[2], FDiv(page_h, Rat(2)))>>

\* (x + ox, page_h - y + oy)
Place(x, y, ox, oy, page_h) == <<FAdd(x, ox), FAdd(FSub(page_h, y), oy)>>

\* the group pre-check with < for <=: rectangles that only touch are taken
\* as not intersecting
PreCheckSkipsM(d, crop) ==
    /\ Truthy(crop)
    /\ Truthy(d.rect)
    /\ ~(/\ RLt(d.rect.c[1], crop.c[3]) /\ RLt(crop.c[1], d.rect.c[3])
         /\ RLt(d.rect.c[2], crop.c[4]) /\ RLt(crop.c[2], d.rect.c[4]))

\* the group pre-check: the drawing is skipped when a crop is set, the
\* drawing has a truthy rect and the two rectangles do not intersect
PreCheckSkips(d, crop) ==
    /\ Truthy(crop)
    /\ Truthy(d.rect)
    /\ ~(/\ RLe(d.rect.c[1], crop.c[3]) /\ RLe(crop.c[1], d.rect.c[3])
         /\ RLe(d.rect.c[2], crop.c[4]) /\ RLe(crop.c[2], d.rect.c[4]))

\* crop.x0 <= pt[0] <= crop.x1 and crop.y0 <= pt[1] <= crop.y1
PointInCrop(pt, crop) ==
    /\ RLe(crop.c[1], PX(pt)) /\ RLe(PX(pt), crop.c[3])
    /\ RLe(crop.c[2], PY(pt)) /\ RLe(PY(pt), crop.c[4])

\* rect.x0 >= crop.x0 and rect.x1 <= crop.x1 and rect.y0 >= crop.y0 and
\* rect.y1 <= crop.y1
RectInCrop(rect, crop) ==
    /\ RLe(crop.c[1], rect.c[1]) /\ RLe(rect.c[3], crop.c[3])
    /\ RLe(crop.c[2], rect.c[2]) /\ RLe(rect.c[4], crop.c[4])

\* _write_geometry, the LINE branch; an exception gives NoFeature
WriteGeometryLine(item, crop, ox, oy, page_h) ==
    IF ~(HasArg(item, 2) /\ HasXY(item.a[1]) /\ HasXY(item.a[2])) THEN NoFeature
    ELSE LET p1 == item.a[1]
             p2 == item.a[2]
         IN  IF Truthy(crop)
             THEN LET clipped == clip_line_to_rect(PX(p1), PY(p1), PX(p2), PY(p2),
                                                   AsRect(crop))
                  IN  IF clipped.ret # "tuple" THEN NoFeature
                      ELSE Feature("line",
                               <<Place(clipped.x1, clipped.y1, ox, oy, page_h),
                                 Place(clipped.x2, clipped.y2, ox, oy, page_h)>>)
             ELSE Feature("line", <<Place(PX(p1), PY(p1), ox, oy, page_h),
                                    Place(PX(p2), PY(p2), ox, oy, page_h)>>)

\* the all_inside loop of the CURVE branch run only on the first control point
CurveAllInsideM(item, crop) ==
    Len(item.a) >= 1 => HasXY(item.a[1]) /\ PointInCrop(item.a[1], crop)

\* the all_inside loop of the CURVE branch ends with all_inside still True
\* and without an exception
CurveAllInside(item, crop) ==
    \A k \in 1..Len(item.a) : HasXY(item.a[k]) /\ PointInCrop(item.a[k], crop)

\* the CURVE branch without "if self.skip_curves: continue"
WriteGeometryCurveM(item, crop, skip_curves, ox, oy, page_h) ==
    IF Truthy(crop) /\ ~CurveAllInside(item, crop) THEN NoFeature
    ELSE IF ~(\A k \in 1..Len(item.a) : HasXY(item.a[k])) THEN NoFeature
    ELSE IF Len(item.a) >= 2
    THEN Feature("curve", [k \in 1..Len(item.a) |->
                              Place(PX(item.a[k]), PY(item.a[k]), ox, oy, page_h)])
    ELSE NoFeature

\* _write_geometry, the CURVE branch
WriteGeometryCurve(item, crop, skip_curves, ox, oy, page_h) ==
    IF skip_curves THEN NoFeature
    ELSE IF Truthy(crop) /\ ~CurveAllInside(item, crop) THEN NoFeature
    ELSE IF ~(\A k \in 1..Len(item.a) : HasXY(item.a[k])) THEN NoFeature
    ELSE IF Len(item.a) >= 2
    THEN Feature("curve", [k \in 1..Len(item.a) |->
                              Place(PX(item.a[k]), PY(item.a[k]), ox, oy, page_h)])
    ELSE NoFeature

\* _write_geometry, the RECTANGLE branch
WriteGeometryRect(item, crop, ox, oy, page_h) ==
    IF ~(HasArg(item, 1) /\ item.a[1].kind = "Rect") THEN NoFeature
    ELSE LET rect == item.a[1]
             x0 == rect.c[1]
             y0 == rect.c[2]
             x1 == rect.c[3]
             y1 == rect.c[4]
         IN  IF Truthy(crop) /\ ~RectInCrop(rect, crop) THEN NoFeature
             ELSE Feature("rect", <<Place(x0, y0, ox, oy, page_h),
                                    Place(x1, y0, ox, oy, page_h),
                                    Place(x1, y1, ox, oy, page_h),
                                    Place(x0, y1, ox, oy, page_h),
                                    Place(x0, y0, ox, oy, page_h)>>)

\* the body of "for item in d.get('items', [])" of _write_geometry: the
\* feature added to the writer, or NoFeature (item filtered, outside the crop,
\* of another type, or an exception caught by the item's try)
WriteGeometryFeature(item, crop, min_size, skip_curves, ox, oy, page_h) ==
    IF item = EmptyItem THEN NoFeature
    ELSE IF SizeFilter(item, min_size) # "pass" THEN NoFeature
    ELSE CASE item.cmd = "l" -> WriteGeometryLine(item, crop, ox, oy, page_h)
           [] item.cmd = "c" -> WriteGeometryCurve(item, crop, skip_curves, ox, oy, page_h)
           [] item.cmd = "re" -> WriteGeometryRect(item, crop, ox, oy, page_h)
           [] OTHER -> NoFeature

\* pts of the curve branch of _create_geometry_layer: the control points that
\* are tuples or lists of at least two elements, transformed, at most four
RECURSIVE CurveTuplePoints(_, _, _, _, _, _)
CurveTuplePoints(a, k, pts, page_height, offset_x, offset_y) ==
    IF k > Len(a) \/ Len(pts) >= 4 THEN pts
    ELSE IF a[k].kind = "tuple" /\ Len(a[k].c) >= 2
    THEN CurveTuplePoints(a, k + 1,
             Append(pts, simple_transform(a[k], page_height, offset_x, offset_y)),
             page_height, offset_x, offset_y)
    ELSE CurveTuplePoints(a, k + 1, pts, page_height, offset_x, offset_y)

\* pts of the last branch of _create_geometry_layer: every part that is a tuple
\* or list of at least two elements, transformed
RECURSIVE PartTuplePoints(_, _, _, _, _, _)
PartTuplePoints(a, k, pts, page_height, offset_x, offset_y) ==
    IF k > Len(a) THEN pts
    ELSE IF a[k].kind = "tuple" /\ Len(a[k].c) >= 2
    THEN PartTuplePoints(a, k + 1,
             Append(pts, simple_transform(a[k], page_height, offset_x, offset_y)),
             page_height, offset_x, offset_y)
    ELSE PartTuplePoints(a, k + 1, pts, page_height, offset_x, offset_y)

\* the rectangle branch of _create_geometry_layer: rect.x0 .. rect.y1, or the
\* four elements of a tuple
CreateGeometryLayerRect(item, page_height, offset_x, offset_y) ==
    IF ~HasArg(item, 1) THEN NoFeature
    ELSE LET rect == item.a[1]
         IN  IF rect.kind = "Rect" \/ (rect.kind = "tuple" /\ Len(rect.c) = 4)
             THEN LET x0 == rect.c[1]
                      y0 == rect.c[2]
                      x1 == rect.c[3]
                      y1 == rect.c[4]
                      T(x, y) == simple_transform(XY(x, y), page_height, offset_x, offset_y)
                  IN  Feature("rectangle", <<T(x0, y0), T(x1, y0), T(x1, y1),
                                             T(x0, y1), T(x0, y0)>>)
             ELSE NoFeature

\* the body of "for item in items" of _create_geometry_layer: the feature
\* added, NoFeature, or Raised when an exception leaves the function (the size
\* filter stands before the try)
CreateGeometryLayerFeature(item, min_size, skip_curves, page_height, offset_x, offset_y) ==
    IF item = EmptyItem THEN NoFeature
    ELSE IF SizeFilter(item, min_size) = "raise" THEN Raised
    ELSE IF SizeFilter(item, min_size) = "reject" THEN NoFeature
    ELSE CASE item.cmd = "l" ->
                IF ~HasArg(item, 2) THEN NoFeature
                ELSE Feature("line",
                         <<simple_transform(item.a[1], page_height, offset_x, offset_y),
                           simple_transform(item.a[2], page_height, offset_x, offset_y)>>)
           [] item.cmd = "c" ->
                IF skip_curves THEN NoFeature
                ELSE LET pts == CurveTuplePoints(item.a, 1, <<>>, page_height,
                                                 offset_x, offset_y)
                     IN  IF Len(pts) >= 2 THEN Feature("curve", pts) ELSE NoFeature
           [] item.cmd = "re" ->
                CreateGeometryLayerRect(item, page_height, offset_x, offset_y)
           [] OTHER ->
                LET pts == PartTuplePoints(item.a, 1, <<>>, page_height,
                                           offset_x, offset_y)
                IN  IF pts # <<>> THEN Feature("cmd", pts) ELSE NoFeature

\* (x, page_height - y): the point as PdfToDxfAlgorithm's
\* convert_pdf_page_to_dxf_direct writes it to the drawing
AlgDxfDirectPoint(x, y, page_height) == <<x, FSub(page_height, y)>>

\* the body of "for item in path.get('items', [])" of PdfToDxfAlgorithm's
\* convert_pdf_page_to_dxf_direct: the entity added to the modelspace, or
\* NoFeature (item filtered, of another type, or an exception caught by the
\* item's try, which covers the size filter too)
AlgDxfDirectFeature(item, min_size, skip_curves, page_height) ==
    IF item = EmptyItem THEN NoFeature
    ELSE IF SizeFilter(item, min_size) # "pass" THEN NoFeature
    ELSE CASE item.cmd = "l" ->
                IF ~(HasArg(item, 2) /\ HasXY(item.a[1]) /\ HasXY(item.a[2])) THEN NoFeature
                ELSE Feature("line",
                         <<AlgDxfDirectPoint(PX(item.a[1]), PY(item.a[1]), page_height),
                           AlgDxfDirectPoint(PX(item.a[2]), PY(item.a[2]), page_height)>>)
           [] item.cmd = "c" ->
                IF skip_curves THEN NoFeature
                ELSE IF ~(\A k \in 1..Len(item.a) : HasXY(item.a[k])) THEN NoFeature
                ELSE IF Len(item.a) >= 2
                THEN Feature("curve", [k \in 1..Len(item.a) |->
                         AlgDxfDirectPoint(PX(item.a[k]), PY(item.a[k]), page_height)])
                ELSE NoFeature
           [] item.cmd = "re" ->
                IF ~(HasArg(item, 1) /\ item.a[1].kind = "Rect") THEN NoFeature
                ELSE LET rect == item.a[1]
                     IN  Feature("rect",
                             <<AlgDxfDirectPoint(rect.c[1], rect.c[2], page_height),
                               AlgDxfDirectPoint(rect.c[3], rect.c[2], page_height),
                               AlgDxfDirectPoint(rect.c[3], rect.c[4], page_height),
                               AlgDxfDirectPoint(rect.c[1], rect.c[4], page_height),
                               AlgDxfDirectPoint(rect.c[1], rect.c[2], page_height)>>)
           [] OTHER -> NoFeature

\* the name item is bound nowhere in convert_pdf_page_to_dxf_direct (the
\* function has no loop over path["items"]) nor at module level, so
\* evaluating item[0] raises NameError
ItemIsBound == FALSE

\* span.get("text", "").strip() is empty
BlankText(span) == span.text \in {"", " "}

\* the feature _write_text adds for the span: [text, pos], or NoFeature
WriteTextFeature(span, ox, oy, page_h) ==
    IF BlankText(span) THEN NoFeature
    ELSE IF span.origin.kind = "none" THEN NoFeature
    ELSE IF ~(HasXY(span.origin) /\ Len(span.origin.c) = 2) THEN NoFeature
    ELSE Feature("text", <<Place(PX(span.origin), PY(span.origin), ox, oy, page_h)>>)

\* the MTEXT convert_pdf_page_to_dxf_direct adds for the span, inserted at
\* (origin[0], page_height - origin[1]), origin (0, 0) when the span has none
DxfDirectTextFeature(span, page_height) ==
    IF BlankText(span) THEN NoFeature
    ELSE LET origin == IF span.origin.kind = "none" THEN XY(Rat(0), Rat(0))
                       ELSE span.origin
         IN  IF ~HasXY(origin) THEN NoFeature
             ELSE Feature("mtext", <<<<PX(origin), FSub(page_height, PY(origin))>>>>)

\* the feature _create_text_layer adds for the span: the origin, or the bbox
\* corner when the origin is missing or short, through _simple_transform
CreateTextLayerFeature(span, page_height, offset_x, offset_y) ==
    IF span.text = "" \/ BlankText(span) THEN NoFeature
    ELSE IF ~Truthy(span.origin) \/ Len(span.origin.c) < 2
    THEN IF Truthy(span.bbox) /\ Len(span.bbox.c) >= 2
         THEN Feature("text", <<simple_transform(XY(span.bbox.c[1], span.bbox.c[2]),
                                                page_height, offset_x, offset_y)>>)
         ELSE NoFeature
    ELSE Feature("text", <<simple_transform(span.origin, page_height, offset_x, offset_y)>>)

\* the feature as kept in em_geom, with the positions of its drawing and item
Written(f, d, i) == [type |-> f.type, pts |-> f.pts, d |-> d, i |-> i]

\* the drawing and the item the emitter is at
EmDrawing == em_page[em_d]
EmItem == em_page[em_d].items[em_i]

\* (ox, oy) of the geometry writer and of the text writer for the page
EmGeomOffset == WriteGeometryOffset(em_center, PageW, PageH)
EmTextOffset == WriteTextOffset(em_center, PageW, PageH)

\* "for d in drawings:" of _write_geometry down to "for item in": the
\* pre-check, then the first item or the next drawing
WriteGeometryDrawing ==
    /\ em_fn = "write_geometry" /\ em_pc = "geometry"
    /\ em_d <= Len(em_page) /\ em_i = 0
    /\ IF PreCheckSkips(EmDrawing, em_crop) \/ EmDrawing.items = <<>>
       THEN em_d' = em_d + 1 /\ em_i' = 0
       ELSE em_d' = em_d /\ em_i' = 1
    /\ UNCHANGED <<em_fn, em_crop, em_min_size, em_skip_curves, em_center,
                   em_page, em_spans, em_pc, em_s, em_geom, em_text>>
    /\ UNCHANGED <<clipVars, stVars, sfVars, runVars, algVars>>

\* the position after the item em_i of the drawing em_d
EmAfterItem ==
    IF em_i < Len(EmDrawing.items)
    THEN em_d' = em_d /\ em_i' = em_i + 1
    ELSE em_d' = em_d + 1 /\ em_i' = 0

\* one pass of "for item in d.get('items', [])" of _write_geometry
WriteGeometryItem ==
    /\ em_fn = "write_geometry" /\ em_pc = "geometry"
    /\ em_d <= Len(em_page) /\ em_i >= 1
    /\ LET f == WriteGeometryFeature(EmItem, em_crop, em_min_size, em_skip_curves,
                                     EmGeomOffset[1], EmGeomOffset[2], PageH)
       IN  em_geom' = IF f = NoFeature THEN em_geom
                      ELSE Append(em_geom, Written(f, em_d, em_i))
    /\ EmAfterItem
    /\ UNCHANGED <<em_fn, em_crop, em_min_size, em_skip_curves, em_center,
                   em_page, em_spans, em_pc, em_s, em_text>>
    /\ UNCHANGED <<clipVars, stVars, sfVars, runVars, algVars>>

\* one pass of "for path in paths:" of convert_pdf_page_to_dxf_direct: with
\* no crop the body is empty; with a crop, the pre-check and then item[0],
\* whose NameError the except clause turns into "continue"
DxfDirectPath ==
    /\ em_fn = "dxf_direct" /\ em_pc = "geometry"
    /\ em_d <= Len(em_page)
    /\ \/ ~Truthy(em_crop)
       \/ Truthy(em_crop) /\ PreCheckSkips(EmDrawing, em_crop)
       \/ Truthy(em_crop) /\ ~PreCheckSkips(EmDrawing, em_crop) /\ ~ItemIsBound
    /\ em_d' = em_d + 1
    /\ UNCHANGED <<em_fn, em_crop, em_min_size, em_skip_curves, em_center,
                   em_page, em_spans, em_pc, em_i, em_s, em_geom, em_text>>
    /\ UNCHANGED <<clipVars, stVars, sfVars, runVars, algVars>>

\* "for path in paths:" of _create_geometry_layer down to "for item in items"
CreateGeometryLayerPath ==
    /\ em_fn = "create_geometry_layer" /\ em_pc = "geometry"
    /\ em_d <= Len(em_page) /\ em_i = 0
    /\ IF EmDrawing.items = <<>>
       THEN em_d' = em_d + 1 /\ em_i' = 0
       ELSE em_d' = em_d /\ em_i' = 1
    /\ UNCHANGED <<em_fn, em_crop, em_min_size, em_skip_curves, em_center,
                   em_page, em_spans, em_pc, em_s, em_geom, em_text>>
    /\ UNCHANGED <<clipVars, stVars, sfVars, runVars, algVars>>

\* one pass of "for item in items:" of _create_geometry_layer
CreateGeometryLayerItem ==
    /\ em_fn = "create_geometry_layer" /\ em_pc = "geometry"
    /\ em_d <= Len(em_page) /\ em_i >= 1
    /\ LET f == CreateGeometryLayerFeature(EmItem, em_min_size, em_skip_curves,
                                           PageH, EmGeomOffset[1], EmGeomOffset[2])
       IN  IF f = Raised
           THEN /\ em_pc' = "raised"
                /\ UNCHANGED <<em_d, em_i, em_geom>>
           ELSE /\ em_geom' = IF f = NoFeature THEN em_geom
                              ELSE Append(em_geom, Written(f, em_d, em_i))
                /\ EmAfterItem
                /\ UNCHANGED em_pc
    /\ UNCHANGED <<em_fn, em_crop, em_min_size, em_skip_curves, em_center,
                   em_page, em_spans, em_s, em_text>>
    /\ UNCHANGED <<clipVars, stVars, sfVars, runVars, algVars>>

\* "for path in paths:" of PdfToDxfAlgorithm's convert_pdf_page_to_dxf_direct
\* down to "for item in path.get('items', [])"
AlgDxfDirectPath ==
    /\ em_fn = "alg_dxf_direct" /\ em_pc = "geometry"
    /\ em_d <= Len(em_page) /\ em_i = 0
    /\ IF EmDrawing.items = <<>>
       THEN em_d' = em_d + 1 /\ em_i' = 0
       ELSE em_d' = em_d /\ em_i' = 1
    /\ UNCHANGED <<em_fn, em_crop, em_min_size, em_skip_curves, em_center,
                   em_page, em_spans, em_pc, em_s, em_geom, em_text>>
    /\ UNCHANGED <<clipVars, stVars, sfVars, runVars, algVars>>

\* one pass of "for item in path.get('items', [])" of PdfToDxfAlgorithm's
\* convert_pdf_page_to_dxf_direct
AlgDxfDirectItem ==
    /\ em_fn = "alg_dxf_direct" /\ em_pc = "geometry"
    /\ em_d <= Len(em_page) /\ em_i >= 1
    /\ LET f == AlgDxfDirectFeature(EmItem, em_min_size, em_skip_curves, PageH)
       IN  em_geom' = IF f = NoFeature THEN em_geom
                      ELSE Append(em_geom, Written(f, em_d, em_i))
    /\ EmAfterItem
    /\ UNCHANGED <<em_fn, em_crop, em_min_size, em_skip_curves, em_center,
                   em_page, em_spans, em_pc, em_s, em_text>>
    /\ UNCHANGED <<clipVars, stVars, sfVars, runVars, algVars>>

\* the drawing list is exhausted: _write_geometry returns and run calls
\* _write_text, convert_pdf_page_to_dxf_direct goes on to the text, and
\* _create_geometry_layer returns and convert_pdf_to_vector calls
\* _create_text_layer
EmGeometryEnd ==
    /\ em_pc = "geometry"
    /\ em_d > Len(em_page)
    /\ em_pc' = "text"
    /\ UNCHANGED <<em_fn, em_crop, em_min_size, em_skip_curves, em_center,
                   em_page, em_spans, em_d, em_i, em_s, em_geom, em_text>>
    /\ UNCHANGED <<clipVars, stVars, sfVars, runVars, algVars>>

\* one pass of "for span in line.get('spans', [])" of _write_text
WriteTextSpan ==
    /\ em_fn = "write_geometry" /\ em_pc = "text"
    /\ em_s <= Len(em_spans)
    /\ LET f == WriteTextFeature(em_spans[em_s], EmTextOffset[1], EmTextOffset[2], PageH)
       IN  em_text' = IF f = NoFeature THEN em_text
                      ELSE Append(em_text, [type |-> f.type, pts |-> f.pts, s |-> em_s])
    /\ em_s' = em_s + 1
    /\ UNCHANGED <<em_fn, em_crop, em_min_size, em_skip_curves, em_center,
                   em_page, em_spans, em_pc, em_d, em_i, em_geom>>
    /\ UNCHANGED <<clipVars, stVars, sfVars, runVars, algVars>>

\* one pass of the span loop of convert_pdf_page_to_dxf_direct
DxfDirectTextSpan ==
    /\ em_fn = "dxf_direct" /\ em_pc = "text"
    /\ em_s <= Len(em_spans)
    /\ LET f == DxfDirectTextFeature(em_spans[em_s], PageH)
       IN  em_text' = IF f = NoFeature THEN em_text
                      ELSE Append(em_text, [type |-> f.type, pts |-> f.pts, s |-> em_s])
    /\ em_s' = em_s + 1
    /\ UNCHANGED <<em_fn, em_crop, em_min_size, em_skip_curves, em_center,
                   em_page, em_spans, em_pc, em_d, em_i, em_geom>>
    /\ UNCHANGED <<clipVars, stVars, sfVars, runVars, algVars>>

\* one pass of "for span in line.get('spans', [])" of _create_text_layer
CreateTextLayerSpan ==
    /\ em_fn = "create_geometry_layer" /\ em_pc = "text"
    /\ em_s <= Len(em_spans)
    /\ LET f == CreateTextLayerFeature(em_spans[em_s], PageH,
                                       EmGeomOffset[1], EmGeomOffset[2])
       IN  em_text' = IF f = NoFeature THEN em_text
                      ELSE Append(em_text, [type |-> f.type, pts |-> f.pts, s |-> em_s])
    /\ em_s' = em_s + 1
    /\ UNCHANGED <<em_fn, em_crop, em_min_size, em_skip_curves, em_center,
                   em_page, em_spans, em_pc, em_d, em_i, em_geom>>
    /\ UNCHANGED <<clipVars, stVars, sfVars, runVars, algVars>>

\* one pass of the span loop of PdfToDxfAlgorithm's
\* convert_pdf_page_to_dxf_direct, whose statements are those of the dialog's
AlgDxfDirectTextSpan ==
    /\ em_fn = "alg_dxf_direct" /\ em_pc = "text"
    /\ em_s <= Len(em_spans)
    /\ LET f == DxfDirectTextFeature(em_spans[em_s], PageH)
       IN  em_text' = IF f = NoFeature THEN em_text
                      ELSE Append(em_text, [type |-> f.type, pts |-> f.pts, s |-> em_s])
    /\ em_s' = em_s + 1
    /\ UNCHANGED <<em_fn, em_crop, em_min_size, em_skip_curves, em_center,
                   em_page, em_spans, em_pc, em_d, em_i, em_geom>>
    /\ UNCHANGED <<clipVars, stVars, sfVars, runVars, algVars>>

\* the span list is exhausted: the writer is released, or the DXF saved
EmTextEnd ==
    /\ em_pc = "text"
    /\ em_s > Len(em_spans)
    /\ em_pc' = "done"
    /\ UNCHANGED <<em_fn, em_crop, em_min_size, em_skip_curves, em_center,
                   em_page, em_spans, em_d, em_i, em_s, em_geom, em_text>>
    /\ UNCHANGED <<clipVars, stVars, sfVars, runVars, algVars>>

\* number of valid items of the page that has one malformed item among them
NValid == 9

\* the crop rectangles (None: no crop), min_size values and canvas centres
\* (None: no canvas extent, or an empty one) tried
EmCrops == {NonePoint, RectVal(0, 0, 10, 10), RectVal(0, 0, 4, 4)}
EmMinSizes == {Rat(0), Rat(2), Rat(5)}
EmCenters == {NonePoint, XY(Rat(16), Rat(14))}

\* the items tried in single-item pages
EmLineItems ==
    {Item("l", <<p, q>>) : p \in ItemPts,
                           q \in {PtPoint(Rat(0), Rat(0)), PtPoint(Rat(5), Rat(5)),
                                  PtPoint(Rat(1), Rat(5))}}
EmCurveItems ==
    {Item("c", <<p, q>>) : p \in CurvePts, q \in CurvePts}
    \cup {Item("c", <<p, PtPoint(Rat(1), Rat(1)), PtPoint(Rat(1), Rat(0)), p>>) : p \in CurvePts}
    \cup {Item("c", <<PtPoint(Rat(1), Rat(1))>>),
          Item("c", <<XY(Rat(1), Rat(1)), XY(Rat(1), Rat(5)), XY(Rat(5), Rat(5)),
                      XY(Rat(5), Rat(1)), XY(Rat(0), Rat(0))>>)}
EmItems ==
    EmLineItems \cup EmCurveItems \cup RectItems \cup OtherItems \cup MalformedItems
    \cup {Item("re", <<SeqPoint(<<Rat(1), Rat(1), Rat(5), Rat(5)>>)>>)}

\* the x's (j = 1) or y's (j = 2) of a point or rectangle value
ArgCoords(v, j) == IF v.kind = "Rect" THEN {v.c[j], v.c[j + 2]} ELSE {v.c[j]}

\* the x's or y's of the item's arguments that have them
ItemCoords(item, j) ==
    UNION {ArgCoords(item.a[k], j) : k \in {n \in 1..Len(item.a) : HasXY(item.a[n])}}

\* the drawing's "rect": None, or the bounding box of the point set pts
BBoxRect(xs, ys) ==
    [kind |-> "Rect", c |-> <<SetMin(xs), SetMin(ys), SetMax(xs), SetMax(ys)>>]

\* the "rect" values a drawing with these items may carry: none, or the
\* bounding box of the items' points, as PyMuPDF reports it
DrawingRects(items) ==
    LET xs == UNION {ItemCoords(items[n], 1) : n \in 1..Len(items)}
        ys == UNION {ItemCoords(items[n], 2) : n \in 1..Len(items)}
    IN  {NonePoint} \cup (IF xs = {} \/ ys = {} THEN {} ELSE {BBoxRect(xs, ys)})

\* a valid line and the list of NValid valid lines with malformed put in at
\* position k
ValidLine == Item("l", <<PtPoint(Rat(0), Rat(1)), PtPoint(Rat(5), Rat(5))>>)
WithMalformed(malformed, k) ==
    [n \in 1..(NValid + 1) |-> IF n = k THEN malformed ELSE ValidLine]

\* the item lists of the drawings tried
EmItemLists ==
    {<<it>> : it \in EmItems}
    \cup {WithMalformed(it, k) : it \in {Item("l", <<PtPoint(Rat(0), Rat(0))>>),
                                         Item("re", <<>>), EmptyItem},
                                 k \in {1, 2, NValid + 1}}
    \cup {<<Item("c", <<PtPoint(Rat(0), Rat(0)), PtPoint(Rat(1), Rat(5))>>),
            Item("c", <<PtPoint(Rat(1), Rat(1)), PtPoint(Rat(1), Rat(0)), PtPoint(Rat(1), Rat(1))>>),
            Item("re", <<RectVal(1, 1, 5, 5)>>),
            Item("l", <<PtPoint(Rat(1), Rat(1)), PtPoint(Rat(5), Rat(5))>>)>>}

\* the pages tried: one drawing, or an empty drawing and a drawing
EmPages ==
    UNION {{<<Drawing(r, items)>> : r \in DrawingRects(items)} : items \in EmItemLists}
    \cup {<<Drawing(NonePoint, <<>>), Drawing(NonePoint, <<it>>)>> : it \in RectItems}

\* the pages tried with text on them: one drawing without rect, of one line
EmTextPages ==
    {pg \in EmPages : /\ Len(pg) = 1 /\ pg[1].rect = NonePoint
                      /\ Len(pg[1].items) = 1 /\ pg[1].items[1].cmd = "l"}

\* the "bbox" of a span: the tuple (x0, y0, x1, y1)
SpanBBox(a, b, c, d) == SeqPoint(<<Rat(a), Rat(b), Rat(c), Rat(d)>>)

\* the span lists tried
EmSpanLists ==
    {<<>>,
     <<Span("A", XY(Rat(5), Rat(5)), SpanBBox(5, 4, 6, 5)),
       Span("", XY(Rat(1), Rat(1)), SpanBBox(1, 0, 1, 1)),
       Span("B", NonePoint, NonePoint),
       Span(" ", XY(Rat(0), Rat(0)), SpanBBox(0, 0, 1, 0)),
       Span("C", XY(Rat(1), Rat(1)), SpanBBox(1, 0, 5, 1)),
       Span("D", XY(NotANumber, NotANumber), SpanBBox(1, 0, 5, 1)),
       Span("E", NonePoint, SpanBBox(1, 4, 5, 5))>>}


-----------------------------------------------------------------------------
(* PdfToVectorTask.run and finished: pdftodxf_dialog.py 810-916, 1150-1197. *)
(* A source document of the request is [base, openable, pages]; an entry    *)
(* of files_to_process is [k, base, pages], k the position of its path in   *)
(* pdf_paths; an entry of generated is [base, page, typ, ext].  The page    *)
(* emitters are taken by their outcome: _write_geometry and _write_text     *)
(* return or raise, convert_pdf_page_to_dxf_direct returns ok or not ok.    *)

\* the largest page count of a source document tried
MaxPages == 3

\* page_to of the dialog when all pages are selected
PageToAll == 9999999

Max(a, b) == IF a >= b THEN a ELSE b
Min(a, b) == IF a <= b THEN a ELSE b

\* start = max(1, self.page_from); end = min(page_count, self.page_to)
PageStart(page_from) == Max(1, page_from)
\* end without the clamp by page_to
PageEndM(page_count, page_to) == page_count
PageEnd(page_count, page_to) == Min(page_count, page_to)

\* cnt without the + 1
ClampedCountM(page_count, page_from, page_to) ==
    Max(0, PageEnd(page_count, page_to) - PageStart(page_from))

\* cnt = max(0, end - start + 1)
ClampedCount(page_count, page_from, page_to) ==
    Max(0, PageEnd(page_count, page_to) - PageStart(page_from) + 1)

\* int(q) of a float q >= 0
Trunc(q) == CHOOSE r \in {v[1] \div v[2] : v \in {q}} : TRUE

\* the progress computed against one step more than the total
PercentM(processed_steps, total_progress_steps) ==
    Trunc(FMul(FDiv(Rat(processed_steps), Rat(total_progress_steps + 1)), Rat(100)))

\* percent = int((processed_steps / total_progress_steps) * 100)
Percent(processed_steps, total_progress_steps) ==
    Trunc(FMul(FDiv(Rat(processed_steps), Rat(total_progress_steps)), Rat(100)))

\* geom_ext, text_ext for the format (".geojson" too when the format is dxf)
TabularExt(out_fmt) == IF out_fmt = "shp" THEN ".shp" ELSE ".geojson"

\* the entries appended to self.generated
GeomArtifact(base, page_num, out_fmt) ==
    [base |-> base, page |-> page_num, typ |-> "geom", ext |-> TabularExt(out_fmt)]
TextArtifact(base, page_num, out_fmt) ==
    [base |-> base, page |-> page_num, typ |-> "text", ext |-> TabularExt(out_fmt)]
DxfArtifact(base, page_num) ==
    [base |-> base, page |-> page_num, typ |-> "dxf", ext |-> ".dxf"]

\* a cancellation that is never seen
isCanceledM == FALSE

\* self.isCanceled()
isCanceled == run_canceled

\* the entry of files_to_process being processed, and its page range
RunFile == run_files[run_f]
RunStart == PageStart(run_req.page_from)
RunEnd == PageEnd(RunFile.pages, run_req.page_to)

\* the host requests cancellation (QgsTask.cancel) while run is executing
Cancel ==
    /\ run_pc \notin {"idle", "returned", "finished"}
    /\ ~run_canceled
    /\ run_canceled' = TRUE
    /\ UNCHANGED <<run_req, run_pc, run_k, run_files, run_total, run_processed,
                   run_f, run_i, run_generated, run_progress, run_error,
                   run_result, run_open, run_reported>>
    /\ UNCHANGED run_warnings
    /\ UNCHANGED <<clipVars, stVars, sfVars, emVars, algVars>>

\* one pass of the pre-count loop over self.pdf_paths
RunPreCount ==
    /\ run_pc = "precount"
    /\ run_k <= Len(run_req.docs)
    /\ IF isCanceled
       THEN /\ run_pc' = "returned" /\ run_result' = "False"
            /\ UNCHANGED <<run_k, run_files, run_total, run_open>>
       ELSE /\ IF run_req.docs[run_k].openable
               THEN LET d == run_req.docs[run_k]
                    IN  /\ run_files' = Append(run_files,
                               [k |-> run_k, base |-> d.base, pages |-> d.pages])
                        /\ run_total' = run_total +
                               ClampedCount(d.pages, run_req.page_from, run_req.page_to)
                        /\ run_open' = run_open \cup {run_k}
               ELSE UNCHANGED <<run_files, run_total, run_open>>
            /\ run_k' = run_k + 1
            /\ UNCHANGED <<run_pc, run_result>>
    /\ UNCHANGED <<run_req, run_canceled, run_processed, run_f, run_i,
                   run_generated, run_progress, run_error, run_reported>>
    /\ UNCHANGED run_warnings
    /\ UNCHANGED <<clipVars, stVars, sfVars, emVars, algVars>>

\* after the pre-count loop: total_progress_steps at least 1,
\* processed_steps = 0, the output directory made
RunPreCountEnd ==
    /\ run_pc = "precount"
    /\ run_k > Len(run_req.docs)
    /\ run_total' = IF run_total = 0 THEN 1 ELSE run_total
    /\ run_processed' = 0
    /\ run_pc' = "docs"
    /\ run_f' = 1
    /\ UNCHANGED <<run_req, run_canceled, run_k, run_files, run_i, run_generated,
                   run_progress, run_error, run_result, run_open, run_reported>>
    /\ UNCHANGED run_warnings
    /\ UNCHANGED <<clipVars, stVars, sfVars, emVars, algVars>>

\* "for pdf_path, doc, total_pages in files_to_process:" down to the page
\* loop; with an empty page range the document is closed at once
RunBeginDoc ==
    /\ run_pc = "docs"
    /\ run_f <= Len(run_files)
    /\ IF RunStart - 1 < RunEnd
       THEN /\ run_i' = RunStart - 1
            /\ run_pc' = "pagecheck"
            /\ UNCHANGED <<run_f, run_open>>
       ELSE /\ run_open' = run_open \ {RunFile.k}
            /\ run_f' = run_f + 1
            /\ UNCHANGED <<run_i, run_pc>>
    /\ UNCHANGED <<run_req, run_canceled, run_k, run_files, run_total,
                   run_processed, run_generated, run_progress, run_error,
                   run_result, run_reported>>
    /\ UNCHANGED run_warnings
    /\ UNCHANGED <<clipVars, stVars, sfVars, emVars, algVars>>

\* the head of the page loop: "if self.isCanceled(): doc.close(); return False"
RunPageCheck ==
    /\ run_pc = "pagecheck"
    /\ IF isCanceled
       THEN /\ run_open' = run_open \ {RunFile.k}
            /\ run_pc' = "returned" /\ run_result' = "False"
       ELSE /\ run_pc' = IF run_req.out_fmt = "dxf" THEN "dxf" ELSE "geom"
            /\ UNCHANGED <<run_open, run_result>>
    /\ UNCHANGED <<run_req, run_canceled, run_k, run_files, run_total,
                   run_processed, run_f, run_i, run_generated, run_progress,
                   run_error, run_reported>>
    /\ UNCHANGED run_warnings
    /\ UNCHANGED <<clipVars, stVars, sfVars, emVars, algVars>>

\* the DXF branch: convert_pdf_page_to_dxf_direct returns ok, and the .dxf
\* entry is appended, or not ok: QgsApplication.logMessage is called, and
\* returns, the warning logged and the tabular writers fallen back on, or
\* raises into the except clause of run
RunDxfDirect ==
    /\ run_pc = "dxf"
    /\ \E ok \in BOOLEAN :
          IF ok
          THEN /\ run_generated' = Append(run_generated, DxfArtifact(RunFile.base, run_i + 1))
               /\ run_pc' = "progress"
               /\ UNCHANGED <<run_error, run_result, run_warnings>>
          ELSE \E raises \in BOOLEAN :
                  IF raises
                  THEN /\ run_error' = "logMessage" /\ run_result' = "False"
                       /\ run_pc' = "returned"
                       /\ UNCHANGED <<run_generated, run_warnings>>
                  ELSE /\ run_warnings' = run_warnings + 1
                       /\ run_pc' = "geom"
                       /\ UNCHANGED <<run_generated, run_error, run_result>>
    /\ UNCHANGED <<run_req, run_canceled, run_k, run_files, run_total,
                   run_processed, run_f, run_i, run_progress, run_open,
                   run_reported>>
    /\ UNCHANGED <<clipVars, stVars, sfVars, emVars, algVars>>

\* "if self.include_geom:" with _write_geometry returning, or raising into
\* the except clause of run
RunWriteGeometry ==
    /\ run_pc = "geom"
    /\ IF run_req.include_geom
       THEN \E raises \in BOOLEAN :
               IF raises
               THEN /\ run_error' = "_write_geometry" /\ run_result' = "False"
                    /\ run_pc' = "returned"
                    /\ UNCHANGED run_generated
               ELSE /\ run_generated' = Append(run_generated,
                           GeomArtifact(RunFile.base, run_i + 1, run_req.out_fmt))
                    /\ run_pc' = "text"
                    /\ UNCHANGED <<run_error, run_result>>
       ELSE /\ run_pc' = "text"
            /\ UNCHANGED <<run_generated, run_error, run_result>>
    /\ UNCHANGED <<run_req, run_canceled, run_k, run_files, run_total,
                   run_processed, run_f, run_i, run_progress, run_open,
                   run_reported>>
    /\ UNCHANGED run_warnings
    /\ UNCHANGED <<clipVars, stVars, sfVars, emVars, algVars>>

\* "if self.include_text:" with _write_text returning, or raising
RunWriteText ==
    /\ run_pc = "text"
    /\ IF run_req.include_text
       THEN \E raises \in BOOLEAN :
               IF raises
               THEN /\ run_error' = "_write_text" /\ run_result' = "False"
                    /\ run_pc' = "returned"
                    /\ UNCHANGED run_generated
               ELSE /\ run_generated' = Append(run_generated,
                           TextArtifact(RunFile.base, run_i + 1, run_req.out_fmt))
                    /\ run_pc' = "progress"
                    /\ UNCHANGED <<run_error, run_result>>
       ELSE /\ run_pc' = "progress"
            /\ UNCHANGED <<run_generated, run_error, run_result>>
    /\ UNCHANGED <<run_req, run_canceled, run_k, run_files, run_total,
                   run_processed, run_f, run_i, run_progress, run_open,
                   run_reported>>
    /\ UNCHANGED run_warnings
    /\ UNCHANGED <<clipVars, stVars, sfVars, emVars, algVars>>

\* the end of the page loop's body: processed_steps += 1, setProgress; after
\* the last page of the range, doc.close() and the next entry
RunProgress ==
    /\ run_pc = "progress"
    /\ run_processed' = run_processed + 1
    /\ run_progress' = Append(run_progress, Percent(run_processed + 1, run_total))
    /\ IF run_i + 1 < RunEnd
       THEN /\ run_i' = run_i + 1
            /\ run_pc' = "pagecheck"
            /\ UNCHANGED <<run_f, run_open>>
       ELSE /\ run_open' = run_open \ {RunFile.k}
            /\ run_f' = run_f + 1
            /\ run_pc' = "docs"
            /\ UNCHANGED run_i
    /\ UNCHANGED <<run_req, run_canceled, run_k, run_files, run_total,
                   run_generated, run_error, run_result, run_reported>>
    /\ UNCHANGED run_warnings
    /\ UNCHANGED <<clipVars, stVars, sfVars, emVars, algVars>>

\* return True with documents still to process
RunReturnM ==
    /\ run_pc = "docs"
    /\ run_pc' = "returned" /\ run_result' = "True"
    /\ UNCHANGED <<run_req, run_canceled, run_k, run_files, run_total,
                   run_processed, run_f, run_i, run_generated, run_progress,
                   run_error, run_open, run_reported>>
    /\ UNCHANGED run_warnings
    /\ UNCHANGED <<clipVars, stVars, sfVars, emVars, algVars>>

\* files_to_process is exhausted: return True
RunReturn ==
    /\ run_pc = "docs"
    /\ run_f > Len(run_files)
    /\ run_pc' = "returned" /\ run_result' = "True"
    /\ UNCHANGED <<run_req, run_canceled, run_k, run_files, run_total,
                   run_processed, run_f, run_i, run_generated, run_progress,
                   run_error, run_open, run_reported>>
    /\ UNCHANGED run_warnings
    /\ UNCHANGED <<clipVars, stVars, sfVars, emVars, algVars>>

\* finished(result): the error is reported when one is recorded, completion
\* otherwise, whatever result is
RunFinished ==
    /\ run_pc = "returned"
    /\ run_reported' = IF run_error # "none" THEN "failure" ELSE "completed"
    /\ run_pc' = "finished"
    /\ UNCHANGED <<run_req, run_canceled, run_k, run_files, run_total,
                   run_processed, run_f, run_i, run_generated, run_progress,
                   run_error, run_result, run_open>>
    /\ UNCHANGED run_warnings
    /\ UNCHANGED <<clipVars, stVars, sfVars, emVars, algVars>>

\* the source documents, page ranges, formats and content selections tried
RunDoc(base, openable, pages) == [base |-> base, openable |-> openable, pages |-> pages]
RunDocs1 ==
    {RunDoc("a", TRUE, n) : n \in 0..MaxPages} \cup {RunDoc("a", FALSE, 0)}
RunDocs2 ==
    {RunDoc(b, TRUE, n) : b \in {"a", "b"}, n \in {1, 2}} \cup {RunDoc("b", FALSE, 0)}
RunDocLists ==
    {<<d>> : d \in RunDocs1}
    \cup {<<d1, d2>> : d1 \in {RunDoc("a", TRUE, 2), RunDoc("a", FALSE, 0)}, d2 \in RunDocs2}
RunRanges == {<<1, PageToAll>>, <<2, 2>>, <<0, 1>>, <<3, 2>>}
RunFormats == {"shp", "geojson", "dxf"}


-----------------------------------------------------------------------------
(* PdfToDxfAlgorithm.processAlgorithm.  A path is a record [dir, base,     *)
(* ext]: the directory part ("" for none), the file name without its       *)
(* extension, the extension as written ("" for none); NoPath is the empty  *)
(* string.  Calls of QGIS, os and fitz are taken by their outcome.         *)

Path(dir, base, ext) == [dir |-> dir, base |-> base, ext |-> ext]
NoPath == Path("", "", "")

\* str.lower() on the extensions tried
Lower(ext) == IF ext = ".SHP" THEN ".shp" ELSE ext

\* the extension of the format: 0 Shapefile, 1 GeoJSON, otherwise DXF
FormatExt(output_format) ==
    IF output_format = 0 THEN ".shp"
    ELSE IF output_format = 1 THEN ".geojson"
    ELSE ".dxf"

\* output_path = base_path + ext if not output_path.lower().endswith(ext)
\* else output_path, with base_path = os.path.splitext(output_path)[0]
EnsureExtension(output_path, output_format) ==
    IF Lower(output_path.ext) = FormatExt(output_format) THEN output_path
    ELSE [output_path EXCEPT !.ext = FormatExt(output_format)]

\* the parameters of convert_pdf_to_vector after self, and how many of them
\* have no default
ConvertParams ==
    <<"pdf_path", "output_path", "fitz", "crs", "output_format", "feedback",
      "canvas_extent", "min_size", "skip_curves">>
ConvertRequired == <<"pdf_path", "output_path", "fitz", "crs", "output_format", "feedback">>

\* the positional arguments of the call in processAlgorithm
ConvertArgs ==
    <<"source_path", "output_path", "fitz", "project_crs", "output_format",
      "output_format", "feedback", "canvas_extent", "min_size", "skip_curves">>

\* a call with the positional arguments a binds to the parameters; Python
\* raises TypeError otherwise
BindsArguments(a, params, required) == Len(required) <= Len(a) /\ Len(a) <= Len(params)

\* if MISSING_DEPS: raise QgsProcessingException
AlgCheckDeps ==
    /\ alg_pc = "deps"
    /\ IF alg_req.missing_deps
       THEN alg_exc' = "Missing dependencies" /\ alg_pc' = "raised"
       ELSE alg_pc' = "params" /\ UNCHANGED alg_exc
    /\ UNCHANGED <<alg_req, alg_output_path, alg_cause, alg_converted, alg_ret>>
    /\ UNCHANGED <<clipVars, stVars, sfVars, emVars, runVars>>

\* the parameters are read; an empty source or output path is rejected
AlgReadParameters ==
    /\ alg_pc = "params"
    /\ IF alg_req.source_path = ""
       THEN alg_exc' = "Invalid input PDF" /\ alg_pc' = "raised" /\ UNCHANGED alg_output_path
       ELSE IF alg_req.output_path = NoPath
       THEN alg_exc' = "Invalid output path" /\ alg_pc' = "raised" /\ UNCHANGED alg_output_path
       ELSE alg_output_path' = alg_req.output_path /\ alg_pc' = "extension" /\ UNCHANGED alg_exc
    /\ UNCHANGED <<alg_req, alg_cause, alg_converted, alg_ret>>
    /\ UNCHANGED <<clipVars, stVars, sfVars, emVars, runVars>>

\* "Ensure output has correct extension"
AlgEnsureExtension ==
    /\ alg_pc = "extension"
    /\ alg_output_path' = EnsureExtension(alg_output_path, alg_req.output_format)
    /\ alg_pc' = "makedirs"
    /\ UNCHANGED <<alg_req, alg_exc, alg_cause, alg_converted, alg_ret>>
    /\ UNCHANGED <<clipVars, stVars, sfVars, emVars, runVars>>

\* "Create parent directory if needed": os.makedirs returns or raises
AlgMakeDirs ==
    /\ alg_pc = "makedirs"
    /\ \E ok \in BOOLEAN :
          IF alg_output_path.dir # "" /\ ~alg_req.dir_exists /\ ~ok
          THEN alg_exc' = "Failed to create output directory" /\ alg_pc' = "raised"
          ELSE alg_pc' = "convert" /\ UNCHANGED alg_exc
    /\ UNCHANGED <<alg_req, alg_output_path, alg_cause, alg_converted, alg_ret>>
    /\ UNCHANGED <<clipVars, stVars, sfVars, emVars, runVars>>

\* the exception that leaves the try block, "none" if none: import fitz and
\* hasattr(fitz, 'open'), then the call of convert_pdf_to_vector, whose body
\* raises FileNotFoundError when the source does not exist and otherwise
\* converts the pages (body_ok) or raises
TryOutcome(req, body_ok) ==
    IF ~req.fitz_has_open THEN "ImportError"
    ELSE IF ~BindsArguments(ConvertArgs, ConvertParams, ConvertRequired) THEN "TypeError"
    ELSE IF ~req.source_exists THEN "FileNotFoundError"
    ELSE IF ~body_ok THEN "Exception"
    ELSE "none"

\* the project CRS and the canvas extent are looked up (they only become
\* arguments), then the try block; every exception is turned into
\* QgsProcessingException("Conversion failed: ..."); otherwise
\* return {self.OUTPUT: output_path}
AlgConvert ==
    /\ alg_pc = "convert"
    /\ \E body_ok \in BOOLEAN :
          /\ alg_cause' = TryOutcome(alg_req, body_ok)
          /\ IF TryOutcome(alg_req, body_ok) = "none"
             THEN /\ alg_converted' = TRUE /\ alg_ret' = alg_output_path
                  /\ alg_pc' = "done" /\ UNCHANGED alg_exc
             ELSE /\ alg_exc' = "Conversion failed" /\ alg_pc' = "raised"
                  /\ UNCHANGED <<alg_converted, alg_ret>>
    /\ UNCHANGED <<alg_req, alg_output_path>>
    /\ UNCHANGED <<clipVars, stVars, sfVars, emVars, runVars>>

\* the output paths and requests tried
AlgPaths ==
    {NoPath} \cup {Path(dir, "out", ext) : dir \in {"", "new"},
                                           ext \in {"", ".shp", ".SHP", ".geojson", ".dxf"}}
AlgRequests ==
    [missing_deps : BOOLEAN, source_path : {"", "in.pdf"}, source_exists : BOOLEAN,
     output_path : AlgPaths, output_format : {0, 1, 2}, dir_exists : BOOLEAN,
     fitz_has_open : BOOLEAN]

-----------------------------------------------------------------------------
(* Initial states and specifications: each specification starts one of the  *)
(* operations above on inputs drawn from the sets tried, the others idle.   *)

\* no call of clip_line_to_rect in progress
ClipIdle ==
    /\ args = [x1 |-> 0, y1 |-> 0, x2 |-> 0, y2 |-> 0, rect |-> MkRect(0, 0, 0, 0)]
    /\ clip = [ClipEnter(Rat(0), Rat(0), Rat(0), Rat(0), MkRect(0, 0, 0, 0)) EXCEPT !.ret = "idle"]

\* no call of _simple_transform in progress
StIdle ==
    /\ st_point = NonePoint
    /\ st_page_height = Rat(0)
    /\ st_offset_x = Rat(0)
    /\ st_offset_y = Rat(0)
    /\ st_results = <<>>

\* no size filter being applied
SfIdle ==
    /\ sf_item = EmptyItem
    /\ sf_results = {}

\* no page being emitted
EmIdle ==
    /\ em_fn = "idle" /\ em_pc = "done"
    /\ em_crop = NonePoint /\ em_min_size = Rat(0) /\ em_skip_curves = FALSE
    /\ em_center = NonePoint
    /\ em_page = <<>> /\ em_spans = <<>>
    /\ em_d = 1 /\ em_i = 0 /\ em_s = 1
    /\ em_geom = <<>> /\ em_text = <<>>

\* no run started
RunIdle ==
    /\ run_req = [docs |-> <<>>, page_from |-> 1, page_to |-> 1, out_fmt |-> "shp",
                  include_geom |-> FALSE, include_text |-> FALSE]
    /\ run_canceled = FALSE
    /\ run_pc = "idle"
    /\ run_k = 1 /\ run_files = <<>> /\ run_total = 0 /\ run_processed = 0
    /\ run_f = 1 /\ run_i = 0
    /\ run_generated = <<>> /\ run_progress = <<>>
    /\ run_error = "none" /\ run_result = "none"
    /\ run_open = {} /\ run_reported = "none"
    /\ run_warnings = 0

\* no call of processAlgorithm in progress
AlgIdle ==
    /\ alg_req = [missing_deps |-> FALSE, source_path |-> "", source_exists |-> FALSE,
                  output_path |-> NoPath, output_format |-> 0, dir_exists |-> FALSE,
                  fitz_has_open |-> FALSE]
    /\ alg_pc = "idle" /\ alg_output_path = NoPath
    /\ alg_exc = "none" /\ alg_cause = "none" /\ alg_converted = FALSE /\ alg_ret = "none"

ClipInit ==
    /\ StIdle /\ SfIdle /\ EmIdle /\ RunIdle /\ AlgIdle
    /\ args \in [x1 : Coords, y1 : Coords, x2 : Coords, y2 : Coords, rect : CropRects]
    /\ clip = ClipEnter(Rat(args.x1), Rat(args.y1), Rat(args.x2), Rat(args.y2), args.rect)

ClipNext == ClipAccept \/ ClipReject \/ ClipReplace

SpecClip == ClipInit /\ [][ClipNext]_vars

SfInit ==
    /\ ClipIdle /\ StIdle /\ EmIdle /\ RunIdle /\ AlgIdle
    /\ sf_item \in Items \ {EmptyItem}
    /\ sf_results = {}

SfNext == ApplySizeFilter

SpecSize == SfInit /\ [][SfNext]_vars

StInit ==
    /\ ClipIdle /\ SfIdle /\ EmIdle /\ RunIdle /\ AlgIdle
    /\ st_point \in StPoints
    /\ st_page_height \in StHeights
    /\ st_offset_x \in StOffsets
    /\ st_offset_y \in StOffsets
    /\ st_results = <<>>

StNext == SimpleTransform

SpecTransform == StInit /\ [][StNext]_vars

EmInit ==
    /\ ClipIdle /\ StIdle /\ SfIdle /\ RunIdle /\ AlgIdle
    /\ em_fn \in {"write_geometry", "dxf_direct", "create_geometry_layer", "alg_dxf_direct"}
    /\ em_crop \in (IF em_fn \in {"create_geometry_layer", "alg_dxf_direct"}
                    THEN {NonePoint} ELSE EmCrops)
    /\ em_min_size \in EmMinSizes
    /\ em_skip_curves \in BOOLEAN
    /\ em_center \in EmCenters
    /\ em_page \in EmPages
    /\ em_spans \in (IF em_page \in EmTextPages THEN EmSpanLists ELSE {<<>>})
    /\ em_pc = "geometry"
    /\ em_d = 1 /\ em_i = 0 /\ em_s = 1
    /\ em_geom = <<>> /\ em_text = <<>>

EmNext ==
    \/ WriteGeometryDrawing
    \/ WriteGeometryItem
    \/ DxfDirectPath
    \/ CreateGeometryLayerPath
    \/ CreateGeometryLayerItem
    \/ AlgDxfDirectPath
    \/ AlgDxfDirectItem
    \/ EmGeometryEnd
    \/ WriteTextSpan
    \/ DxfDirectTextSpan
    \/ CreateTextLayerSpan
    \/ AlgDxfDirectTextSpan
    \/ EmTextEnd

SpecEmit == EmInit /\ [][EmNext]_vars

\* the task constructed and run entered
RunInit ==
    /\ ClipIdle /\ StIdle /\ SfIdle /\ EmIdle /\ AlgIdle
    /\ run_req \in {[docs |-> ds, page_from |-> r[1], page_to |-> r[2], out_fmt |-> f,
                     include_geom |-> g, include_text |-> t] :
                        ds \in RunDocLists, r \in RunRanges, f \in RunFormats,
                        g \in BOOLEAN, t \in BOOLEAN}
    /\ run_canceled = FALSE
    /\ run_pc = "precount"
    /\ run_k = 1 /\ run_files = <<>> /\ run_total = 0 /\ run_processed = 0
    /\ run_f = 1 /\ run_i = 0
    /\ run_generated = <<>> /\ run_progress = <<>>
    /\ run_error = "none" /\ run_result = "none"
    /\ run_open = {} /\ run_reported = "none"
    /\ run_warnings = 0

RunNext ==
    \/ Cancel
    \/ RunPreCount
    \/ RunPreCountEnd
    \/ RunBeginDoc
    \/ RunPageCheck
    \/ RunDxfDirect
    \/ RunWriteGeometry
    \/ RunWriteText
    \/ RunProgress
    \/ RunReturn
    \/ RunFinished

SpecRun == RunInit /\ [][RunNext]_vars

\* run is one sequential function executed by a worker thread: its next
\* statement is always executed, and every call it makes returns or raises;
\* a cancellation request and the main thread's finished() are not forced
RunStep ==
    \/ RunPreCount \/ RunPreCountEnd \/ RunBeginDoc \/ RunPageCheck \/ RunDxfDirect
    \/ RunWriteGeometry \/ RunWriteText \/ RunProgress \/ RunReturn
SpecRunFair == RunInit /\ [][RunNext]_vars /\ WF_vars(RunStep)

AlgInit ==
    /\ ClipIdle /\ StIdle /\ SfIdle /\ EmIdle /\ RunIdle
    /\ alg_req \in {r \in AlgRequests : (r.source_path = "" => ~r.source_exists)}
    /\ alg_pc = "deps" /\ alg_output_path = NoPath
    /\ alg_exc = "none" /\ alg_cause = "none" /\ alg_converted = FALSE /\ alg_ret = "none"

AlgNext ==
    \/ AlgCheckDeps
    \/ AlgReadParameters
    \/ AlgEnsureExtension
    \/ AlgMakeDirs
    \/ AlgConvert

SpecAlg == AlgInit /\ [][AlgNext]_vars

-----------------------------------------------------------------------------
(* Claims about clip_line_to_rect (SpecClip) *)

\* the point <<x, y>> lies in the closed rectangle rect
InClosedRect(x, y, rect) ==
    RLe(rect.x0, x) /\ RLe(x, rect.x1) /\ RLe(rect.y0, y) /\ RLe(y, rect.y1)

\* the original endpoints of the call
ArgP1 == <<Rat(args.x1), Rat(args.y1)>>
ArgP2 == <<Rat(args.x2), Rat(args.y2)>>

\* (b - a) x (c - a)
Cross(a, b, c) ==
    RSub(RMul(RSub(b[1], a[1]), RSub(c[2], a[2])),
         RMul(RSub(b[2], a[2]), RSub(c[1], a[1])))

\* (b - a) . (d - c)
Dot(a, b, c, d) ==
    RAdd(RMul(RSub(b[1], a[1]), RSub(d[1], c[1])),
         RMul(RSub(b[2], a[2]), RSub(d[2], c[2])))

\* p lies on the closed segment from ArgP1 to ArgP2
OnArgSegment(p) ==
    /\ RZero(Cross(ArgP1, ArgP2, p))
    /\ RLe(RMin(ArgP1[1], ArgP2[1]), p[1]) /\ RLe(p[1], RMax(ArgP1[1], ArgP2[1]))
    /\ RLe(RMin(ArgP1[2], ArgP2[2]), p[2]) /\ RLe(p[2], RMax(ArgP1[2], ArgP2[2]))

\* some point of the closed segment ArgP1-ArgP2 lies in the closed rectangle
\* args.rect: the segment's bounding box meets the rectangle, and the
\* rectangle's corners are not all strictly on one side of the segment's line
SegMeetsRect ==
    LET r == args.rect
        corners == {<<r.x0, r.y0>>, <<r.x0, r.y1>>, <<r.x1, r.y0>>, <<r.x1, r.y1>>}
        side(c) == Cross(ArgP1, ArgP2, c)
    IN  /\ RLe(RMin(ArgP1[1], ArgP2[1]), r.x1) /\ RLe(r.x0, RMax(ArgP1[1], ArgP2[1]))
        /\ RLe(RMin(ArgP1[2], ArgP2[2]), r.y1) /\ RLe(r.y0, RMax(ArgP1[2], ArgP2[2]))
        /\ ~(\A c \in corners : RLt(Rat(0), side(c)))
        /\ ~(\A c \in corners : RLt(side(c), Rat(0)))

C2_RejectAfterReplace == clip.ret = "None" /\ clip.nrepl >= 1

-----------------------------------------------------------------------------
(* Claims about _simple_transform (SpecTransform) *)

\* the call was made on a tuple of two numbers with zero offsets
StFlipCase ==
    /\ IndexableXY(st_point)
    /\ st_offset_x = Rat(0) /\ st_offset_y = Rat(0)

\* C9 as stated: applying the flip twice with zero offset and the same page
\* height returns the original point, for all x, y, H.
C9_DoubleFlipReturnsPoint ==
    (StFlipCase /\ Len(st_results) >= 2) =>
        st_results[2] = <<st_point.c[1], st_point.c[2]>>

\* the float subtraction page_height - y is exact
StExact == FSub(st_page_height, st_point.c[2]) = RSub(st_page_height, st_point.c[2])

\* C9 amended: applying the flip twice with zero offset and the same page
\* height returns x unchanged, and returns y unchanged whenever the float
\* subtraction page_height - y is exact.
C9_DoubleFlipReturnsPointWhenExact ==
    (StFlipCase /\ Len(st_results) >= 2) =>
        /\ st_results[2][1] = st_point.c[1]
        /\ (StExact => st_results[2][2] = st_point.c[2])

\* C9 witness: a point really flipped (y moved) and flipped back
C9_Witness ==
    /\ StFlipCase /\ Len(st_results) >= 2 /\ StExact
    /\ st_results[1][2] # st_point.c[2]
    /\ st_results[2] = <<st_point.c[1], st_point.c[2]>>

-----------------------------------------------------------------------------
(* Claims about the size filter (SpecSize) *)

\* C8: size filter monotonicity: an item (line, curve, rectangle or
\* unrecognized) rejected at minSize = t1 is rejected at every t2 > t1.
C8_SizeFilterMonotone ==
    \A r1 \in sf_results : \A r2 \in sf_results :
        RLt(r1[1], r2[1]) =>
            /\ (r1[2] = "reject" => r2[2] = "reject")
            /\ (r1[2] # "pass" => r2[2] # "pass")

\* C8 witness: one item passed at a positive threshold and rejected at a
\* larger one
C8_Witness ==
    \E r1 \in sf_results : \E r2 \in sf_results :
        /\ RLt(Rat(0), r1[1]) /\ RLt(r1[1], r2[1])
        /\ r1[2] = "pass" /\ r2[2] = "reject"
        /\ \E r3 \in sf_results : RLt(r2[1], r3[1]) /\ r3[2] = "reject"

\* the item is a line, a curve or a rectangle with all its points present
WellFormed(item) == item \in LineItems \cup CurveItems \cup RectItems

\* the largest extent of a well-formed item: max(|x1 - x2|, |y1 - y2|) of a
\* line, the larger spread of the x's and y's of all control points of a
\* curve, max(width, height) of a rectangle
MaxExtent(item) ==
    CASE item.cmd = "l" ->
            RMax(RAbs(RSub(item.a[1].c[1], item.a[2].c[1])),
                 RAbs(RSub(item.a[1].c[2], item.a[2].c[2])))
      [] item.cmd = "c" ->
            LET xs == {item.a[k].c[1] : k \in 1..Len(item.a)}
                ys == {item.a[k].c[2] : k \in 1..Len(item.a)}
            IN  RMax(RSub(SetMax(xs), SetMin(xs)), RSub(SetMax(ys), SetMin(ys)))
      [] OTHER ->
            RMax(RSub(item.a[1].c[3], item.a[1].c[1]), RSub(item.a[1].c[4], item.a[1].c[2]))

\* C12: the size filter passes every item when minSize <= 0; when
\* minSize > 0 a line, curve or rectangle passes if and only if its largest
\* extent is at least minSize (an extent equal to minSize passes).
C12_SizeFilterPassIffExtent ==
    WellFormed(sf_item) =>
        \A r \in sf_results :
            r[2] = "pass" <=> (RLe(r[1], Rat(0)) \/ RLe(r[1], MaxExtent(sf_item)))

\* no control point of the curve is the page origin (0, 0)
NoOriginPoint(item) ==
    item.cmd = "c" => \A k \in 1..Len(item.a) : item.a[k].c # <<Rat(0), Rat(0)>>

\* C12 restricted to lines, rectangles and the curves none of whose control
\* points is (0, 0)
C12_SizeFilterPassIffExtentNoOrigin ==
    NoOriginPoint(sf_item) => C12_SizeFilterPassIffExtent

\* C13: an item of an unrecognized primitive type passes the size filter for
\* every minSize, minSize > 0 included.
C13_UnrecognizedExempt ==
    sf_item \in OtherItems => \A r \in sf_results : r[2] = "pass"

-----------------------------------------------------------------------------
(* Claims about the emission of a page (SpecEmit) *)

\* the item a written geometry feature was written for
ItemOf(f) == em_page[f.d].items[f.i]

\* the positions <<d, i>> of the page's items
ItemPositions ==
    {p \in (1..Len(em_page)) \X (1..(NValid + 1)) : p[2] <= Len(em_page[p[1]].items)}

\* a feature was written for the item at position p
EmittedFor(p) == \E n \in 1..Len(em_geom) : em_geom[n].d = p[1] /\ em_geom[n].i = p[2]

\* the geometry of the page has been emitted to the end
GeometryEmitted == em_pc \in {"text", "done"}

\* the emitter is one of the task (tabular or CAD direct) and a crop is set
TaskEmitterWithCrop == em_fn \in {"write_geometry", "dxf_direct"} /\ em_crop.kind = "Rect"

\* the item is a rectangle primitive
IsRectItem(item) == item.cmd = "re" /\ Len(item.a) >= 1 /\ item.a[1].kind = "Rect"

\* the rectangle lies in the closed crop rectangle
RectContained(r, crop) ==
    /\ RLe(crop.c[1], r.c[1]) /\ RLe(r.c[3], crop.c[3])
    /\ RLe(crop.c[2], r.c[2]) /\ RLe(r.c[4], crop.c[4])

\* the placement of the page point (x, y) by the emitter's offsets
Placed(x, y) ==
    IF em_fn = "dxf_direct" THEN <<x, FSub(PageH, y)>>
    ELSE <<FAdd(x, EmGeomOffset[1]), FAdd(FSub(PageH, y), EmGeomOffset[2])>>

\* the closed outline of the rectangle's four corners
Outline(r) ==
    <<Placed(r.c[1], r.c[2]), Placed(r.c[3], r.c[2]), Placed(r.c[3], r.c[4]),
      Placed(r.c[1], r.c[4]), Placed(r.c[1], r.c[2])>>

\* C3: with a crop region set, a rectangle primitive (that passes the size
\* filter) is emitted if and only if it lies wholly inside the crop, and every
\* emitted rectangle is the closed 5-point outline of its original corners.
C3_RectEmittedIffContained ==
    TaskEmitterWithCrop =>
        /\ \A n \in 1..Len(em_geom) :
              IsRectItem(ItemOf(em_geom[n])) =>
                  /\ RectContained(ItemOf(em_geom[n]).a[1], em_crop)
                  /\ em_geom[n].pts = Outline(ItemOf(em_geom[n]).a[1])
        /\ GeometryEmitted =>
              \A p \in ItemPositions :
                  LET item == em_page[p[1]].items[p[2]]
                  IN  (/\ IsRectItem(item)
                       /\ SizeFilter(item, em_min_size) = "pass"
                       /\ RectContained(item.a[1], em_crop)) => EmittedFor(p)

\* C3 restricted to the tabular geometry writer _write_geometry
C3_WriteGeometryRectIffContained == em_fn = "write_geometry" => C3_RectEmittedIffContained

\* the rectangle (1,1,5,5) is written by _write_geometry against the crop
\* (0,0,10,10), as its outline
C3_WriteGeometryWitness ==
    /\ em_fn = "write_geometry" /\ em_crop = RectVal(0, 0, 10, 10)
    /\ \E n \in 1..Len(em_geom) :
          /\ ItemOf(em_geom[n]) = Item("re", <<RectVal(1, 1, 5, 5)>>)
          /\ Len(em_geom[n].pts) = 5

\* the item is a curve primitive
IsCurveItem(item) == item.cmd = "c"

\* the control point lies in the closed crop rectangle
ControlPointInside(pt, crop) ==
    /\ pt.kind \in {"tuple", "Point"} /\ Len(pt.c) >= 2
    /\ RLe(crop.c[1], pt.c[1]) /\ RLe(pt.c[1], crop.c[3])
    /\ RLe(crop.c[2], pt.c[2]) /\ RLe(pt.c[2], crop.c[4])

\* C4: with a crop region set, a curve is emitted only if every one of its
\* control points lies in the closed crop rectangle, and an emitted curve
\* carries all of its control points, in order.
C4_CurveOnlyIfAllInside ==
    TaskEmitterWithCrop =>
        \A n \in 1..Len(em_geom) :
            IsCurveItem(ItemOf(em_geom[n])) =>
                LET a == ItemOf(em_geom[n]).a
                IN  /\ \A k \in 1..Len(a) : ControlPointInside(a[k], em_crop)
                    /\ Len(em_geom[n].pts) = Len(a)
                    /\ \A k \in 1..Len(a) :
                          em_geom[n].pts[k] = Placed(a[k].c[1], a[k].c[2])

\* C4 witness: the page's geometry is emitted under a crop; one curve was
\* written with its three control points, another with a control point outside
\* the crop was not
C4_Witness ==
    /\ TaskEmitterWithCrop /\ GeometryEmitted
    /\ \E n \in 1..Len(em_geom) :
          IsCurveItem(ItemOf(em_geom[n])) /\ Len(em_geom[n].pts) = 3
    /\ \E p \in ItemPositions :
          LET item == em_page[p[1]].items[p[2]]
          IN  /\ IsCurveItem(item) /\ Len(item.a) >= 2
              /\ \A k \in 1..Len(item.a) : HasXY(item.a[k])
              /\ \E k \in 1..Len(item.a) : ~ControlPointInside(item.a[k], em_crop)
              /\ ~EmittedFor(p)

\* the page is one malformed item among NValid valid lines
OneMalformedAmongValid ==
    /\ Len(em_page) = 1 /\ Len(em_page[1].items) = NValid + 1
    /\ \E k \in 1..(NValid + 1) :
          /\ em_page[1].items[k] # ValidLine
          /\ \A n \in 1..(NValid + 1) : n # k => em_page[1].items[n] = ValidLine

\* C5: geometry emission never aborts because of a malformed drawing item:
\* no exception leaves the emitter, and a page of one malformed item among
\* NValid valid ones yields exactly NValid geometry features.
C5_MalformedItemNeverAborts ==
    /\ em_pc # "raised"
    /\ (GeometryEmitted /\ OneMalformedAmongValid) =>
          /\ Len(em_geom) = NValid
          /\ \A n \in 1..Len(em_geom) : ItemOf(em_geom[n]) = ValidLine

\* C5 restricted to the tabular geometry writer _write_geometry
C5_WriteGeometryNeverAborts == em_fn = "write_geometry" => C5_MalformedItemNeverAborts

\* C5 restricted to _create_geometry_layer with min_size = 0
C5_CreateGeometryLayerUnfiltered ==
    (em_fn = "create_geometry_layer" /\ em_min_size = Rat(0)) => C5_MalformedItemNeverAborts

\* the offsets of the page: the canvas centre minus half the page size, or 0
PageOffset ==
    IF em_center.kind = "none" THEN <<Rat(0), Rat(0)>>
    ELSE <<FSub(em_center.c[1], FDiv(PageW, Rat(2))),
           FSub(em_center.c[2], FDiv(PageH, Rat(2)))>>

\* (x + offsetX, (pageHeight - y) + offsetY)
Transformed(x, y) == <<FAdd(x, PageOffset[1]), FAdd(FSub(PageH, y), PageOffset[2])>>

\* the page point is kept by the crop: no crop, or the point is inside it
KeptByCrop(pt) == em_crop.kind = "none" \/ ControlPointInside(pt, em_crop)

\* C10: in tabular emission every written coordinate is
\* (x + offsetX, (pageHeight - y) + offsetY) of a page point, geometry and
\* text are written with the same offsets, and a text span whose origin is a
\* line endpoint is written at the coordinate of that endpoint.
C10_TabularPlacement ==
    em_fn = "write_geometry" =>
        /\ \A n \in 1..Len(em_geom) :
              LET f == em_geom[n]
                  a == ItemOf(f).a
              IN  CASE f.type = "line" ->
                          \A k \in 1..2 :
                              IF KeptByCrop(a[k])
                              THEN f.pts[k] = Transformed(a[k].c[1], a[k].c[2])
                              ELSE \E x \in {em_crop.c[1], em_crop.c[3]},
                                      y \in {em_crop.c[2], em_crop.c[4]} :
                                      \/ f.pts[k][1] = Transformed(x, y)[1]
                                      \/ f.pts[k][2] = Transformed(x, y)[2]
                    [] f.type = "curve" ->
                          \A k \in 1..Len(a) : f.pts[k] = Transformed(a[k].c[1], a[k].c[2])
                    [] f.type = "rect" ->
                          f.pts = <<Transformed(a[1].c[1], a[1].c[2]),
                                    Transformed(a[1].c[3], a[1].c[2]),
                                    Transformed(a[1].c[3], a[1].c[4]),
                                    Transformed(a[1].c[1], a[1].c[4]),
                                    Transformed(a[1].c[1], a[1].c[2])>>
                    [] OTHER -> FALSE
        /\ \A n \in 1..Len(em_text) :
              LET origin == em_spans[em_text[n].s].origin
              IN  em_text[n].pts = <<Transformed(origin.c[1], origin.c[2])>>
        /\ \A n \in 1..Len(em_geom) : \A m \in 1..Len(em_text) : \A k \in 1..2 :
              (/\ em_geom[n].type = "line"
               /\ KeptByCrop(ItemOf(em_geom[n]).a[k])
               /\ em_spans[em_text[m].s].origin.c = ItemOf(em_geom[n]).a[k].c)
              => em_text[m].pts[1] = em_geom[n].pts[k]

\* C10 witness: with a canvas extent, a line ending at (5,5) and a span at
\* (5,5) were both written, at the same place
C10_Witness ==
    /\ em_fn = "write_geometry" /\ em_pc = "done" /\ em_center.kind # "none"
    /\ \E n \in 1..Len(em_geom) : \E m \in 1..Len(em_text) :
          /\ em_geom[n].type = "line"
          /\ ItemOf(em_geom[n]).a[2] = PtPoint(Rat(5), Rat(5))
          /\ em_spans[em_text[m].s].origin = XY(Rat(5), Rat(5))
          /\ em_text[m].pts[1] = em_geom[n].pts[2]
          /\ em_geom[n].pts[2] # <<Rat(5), Rat(5)>>

\* the emitter is one of the two convert_pdf_page_to_dxf_direct
CadEmitter == em_fn \in {"dxf_direct", "alg_dxf_direct"}

\* the page points a written geometry feature stands for, in order: the end
\* points of the line, the control points of the curve, the closed outline of
\* the rectangle
SourcePoints(f) ==
    LET a == ItemOf(f).a
    IN  IF f.type = "rect"
        THEN <<<<a[1].c[1], a[1].c[2]>>, <<a[1].c[3], a[1].c[2]>>, <<a[1].c[3], a[1].c[4]>>,
               <<a[1].c[1], a[1].c[4]>>, <<a[1].c[1], a[1].c[2]>>>>
        ELSE [k \in 1..Len(a) |-> <<a[k].c[1], a[k].c[2]>>]

\* C11: in CAD (DXF) emission every geometry point and every text insertion
\* point written is (x + offsetX, (pageHeight - y) + offsetY) of its page
\* point, with the placement offset tabular emission of the page uses.
C11_CadPlacement ==
    CadEmitter =>
        /\ \A n \in 1..Len(em_geom) :
              /\ Len(em_geom[n].pts) = Len(SourcePoints(em_geom[n]))
              /\ \A k \in 1..Len(em_geom[n].pts) :
                    KeptByCrop(XY(SourcePoints(em_geom[n])[k][1], SourcePoints(em_geom[n])[k][2]))
                    => em_geom[n].pts[k] = Transformed(SourcePoints(em_geom[n])[k][1],
                                                       SourcePoints(em_geom[n])[k][2])
        /\ \A n \in 1..Len(em_text) :
              LET origin == em_spans[em_text[n].s].origin
              IN  origin.kind # "none" =>
                      em_text[n].pts = <<Transformed(origin.c[1], origin.c[2])>>

\* C11 restricted to requests without canvas extent, whose offset is (0, 0)
C11_CadPlacementWithoutCanvas == em_center.kind = "none" => C11_CadPlacement

\* the per-item rules of _write_geometry alone emit the item at position p
PerItemEmits(p) ==
    WriteGeometryFeature(em_page[p[1]].items[p[2]], em_crop, em_min_size, em_skip_curves,
                         EmGeomOffset[1], EmGeomOffset[2], PageH) # NoFeature

\* the drawing's rect is absent or a bounding box of the points of its items
RectIsBBox(d) == d.rect \in DrawingRects(d.items)

\* C14: the path-group pre-check never changes the result: for drawings whose
\* rect is a bounding box of their items and every crop, the items emitted by
\* _write_geometry (pre-check, then per-item rules) are exactly the items the
\* per-item rules alone emit.
C14_PreCheckChangesNothing ==
    (/\ em_fn = "write_geometry" /\ GeometryEmitted
     /\ \A d \in 1..Len(em_page) : RectIsBBox(em_page[d])) =>
        \A p \in ItemPositions : EmittedFor(p) <=> PerItemEmits(p)

\* C14 witness: under a crop the pre-check skipped a drawing that has an
\* item, and the geometry was emitted to the end
C14_Witness ==
    /\ em_fn = "write_geometry" /\ GeometryEmitted /\ em_crop.kind = "Rect"
    /\ \E d \in 1..Len(em_page) :
          /\ PreCheckSkips(em_page[d], em_crop)
          /\ RectIsBBox(em_page[d])
          /\ Len(em_page[d].items) >= 1
          /\ em_page[d].items[1] \in LineItems \cup RectItems

\* C14 witness, the other side: under a crop a drawing with a rect was not
\* skipped and an item of it was emitted
C14_WitnessEmitted ==
    /\ em_fn = "write_geometry" /\ GeometryEmitted /\ em_crop.kind = "Rect"
    /\ \E n \in 1..Len(em_geom) : em_page[em_geom[n].d].rect.kind = "Rect"

\* what the emitter's item rules give for the item when skip_curves is unset
UnskippedFeature(item) ==
    CASE em_fn = "write_geometry" ->
            WriteGeometryFeature(item, em_crop, em_min_size, FALSE,
                                 EmGeomOffset[1], EmGeomOffset[2], PageH)
      [] em_fn = "create_geometry_layer" ->
            CreateGeometryLayerFeature(item, em_min_size, FALSE, PageH,
                                       EmGeomOffset[1], EmGeomOffset[2])
      [] em_fn = "alg_dxf_direct" ->
            AlgDxfDirectFeature(item, em_min_size, FALSE, PageH)
      [] OTHER -> NoFeature

\* the drawing of position p is one the emitter goes through item by item
Visited(p) == ~(em_fn = "write_geometry" /\ PreCheckSkips(em_page[p[1]], em_crop))

\* C15: with skipCurves set no emitter ever writes a curve, whatever crop and
\* minSize are, and the lines, rectangles and other items written are
\* those written with skipCurves unset.
C15_SkipCurves ==
    em_skip_curves =>
        /\ \A n \in 1..Len(em_geom) :
              /\ ~IsCurveItem(ItemOf(em_geom[n])) /\ em_geom[n].type # "curve"
              /\ Feature(em_geom[n].type, em_geom[n].pts) = UnskippedFeature(ItemOf(em_geom[n]))
        /\ GeometryEmitted =>
              \A p \in ItemPositions :
                  LET item == em_page[p[1]].items[p[2]]
                  IN  (/\ ~IsCurveItem(item) /\ Visited(p)
                       /\ UnskippedFeature(item) # NoFeature) => EmittedFor(p)

\* C15 witness: with skip_curves set the geometry was emitted to the end; a
\* curve that would be written with skip_curves unset was not, a line was
C15_Witness ==
    /\ em_skip_curves /\ GeometryEmitted
    /\ \E p \in ItemPositions :
          /\ IsCurveItem(em_page[p[1]].items[p[2]]) /\ Visited(p)
          /\ UnskippedFeature(em_page[p[1]].items[p[2]]).type = "curve"
          /\ ~EmittedFor(p)
    /\ \E n \in 1..Len(em_geom) : em_geom[n].type = "line"

\* the text features written for the span at position k
TextFeaturesOf(k) == {n \in 1..Len(em_text) : em_text[n].s = k}

\* the span's text is empty or whitespace only
EmptyOrBlank(span) == span.text \in {"", " "}

\* the span has an origin (x, y) of numbers, or a bbox whose corner can stand
\* in for it
Placeable(span) ==
    \/ span.origin.kind = "tuple" /\ HasXY(span.origin)
    \/ span.bbox.kind = "tuple" /\ HasXY(span.bbox)

\* the span's origin is absent or a pair of numbers
PlainOrigin(span) == span.origin.kind = "none" \/ HasXY(span.origin)

\* C16: in every emitter a text span whose text is empty or whitespace only,
\* or that has neither a usable origin nor a bounding-box corner, yields no
\* text feature; every other span yields exactly one.
C16_SpanDroppedOrWrittenOnce ==
    em_pc = "done" =>
        \A k \in 1..Len(em_spans) :
            PlainOrigin(em_spans[k]) =>
                Cardinality(TextFeaturesOf(k)) =
                    (IF EmptyOrBlank(em_spans[k]) \/ ~Placeable(em_spans[k]) THEN 0 ELSE 1)

\* C16 restricted to _create_text_layer
C16_CreateTextLayer == em_fn = "create_geometry_layer" => C16_SpanDroppedOrWrittenOnce

\* C16 restricted to the spans that have an origin, in every emitter
C16_SpansWithOrigin ==
    em_pc = "done" =>
        \A k \in 1..Len(em_spans) :
            (em_spans[k].origin.kind = "tuple" /\ HasXY(em_spans[k].origin)) =>
                Cardinality(TextFeaturesOf(k)) = (IF EmptyOrBlank(em_spans[k]) THEN 0 ELSE 1)

-----------------------------------------------------------------------------
(* Claims about PdfToVectorTask.run (SpecRun) *)

\* run has returned
RunReturned == run_pc \in {"returned", "finished"}

\* the terminal states of a run
RunCompleted == RunReturned /\ run_result = "True"
RunCanceled == RunReturned /\ run_result = "False" /\ run_error = "none"

\* one openable source document, tabular format, both content types, no
\* cancellation requested and no emitter exception
OneDocTabularBoth ==
    /\ Len(run_req.docs) = 1 /\ run_req.docs[1].openable
    /\ run_req.out_fmt \in {"shp", "geojson"}
    /\ run_req.include_geom /\ run_req.include_text
    /\ ~run_canceled /\ run_error = "none"

\* the first and the last page of the clamped range of a document of P pages
FirstPage == IF run_req.page_from >= 1 THEN run_req.page_from ELSE 1
LastPage(P) == IF run_req.page_to <= P THEN run_req.page_to ELSE P
\* the number of pages in the clamped range
RangeCount(P) == IF LastPage(P) >= FirstPage THEN LastPage(P) - FirstPage + 1 ELSE 0

\* the extension of the tabular format
ExtOf(fmt) == IF fmt = "shp" THEN ".shp" ELSE ".geojson"

\* C6: one openable document with N >= 1 pages in the clamped range, tabular
\* format, both content types, no cancellation: the run ends Completed with
\* the 2N artifacts p_geom, p_text of the pages in ascending order, and
\* progress 100 is reported exactly once, after the last page.
C6_TabularRunCompletes ==
    (OneDocTabularBoth /\ RunReturned /\ RangeCount(run_req.docs[1].pages) >= 1) =>
        LET N == RangeCount(run_req.docs[1].pages)
        IN  /\ RunCompleted
            /\ Len(run_generated) = 2 * N
            /\ \A n \in 1..(2 * N) :
                  run_generated[n] =
                      [base |-> run_req.docs[1].base,
                       page |-> FirstPage + ((n - 1) \div 2),
                       typ |-> IF n % 2 = 1 THEN "geom" ELSE "text",
                       ext |-> ExtOf(run_req.out_fmt)]
            /\ Len(run_progress) = N
            /\ run_progress[N] = 100
            /\ Cardinality({n \in 1..N : run_progress[n] = 100}) = 1

\* C6 witness: a 2-page document converted to the end: four artifacts,
\* progress 50 then 100
C6_Witness ==
    /\ OneDocTabularBoth /\ RunCompleted
    /\ run_req.docs[1].pages = 2 /\ run_req.page_from = 1
    /\ Len(run_generated) = 4
    /\ run_progress = <<50, 100>>

\* the pages <<base, page>> of the clamped ranges of files_to_process from
\* entry f on, in processing order
RECURSIVE PagesInOrder(_)
PagesInOrder(f) ==
    IF f > Len(run_files) THEN <<>>
    ELSE [p \in 1..RangeCount(run_files[f].pages) |->
             <<run_files[f].base, FirstPage + p - 1>>] \o PagesInOrder(f + 1)

\* the number of content types selected
TypesSelected ==
    (IF run_req.include_geom THEN 1 ELSE 0) + (IF run_req.include_text THEN 1 ELSE 0)

\* the artifact list holds exactly the artifacts of the first k pages
ArtifactsOfFirstPages(k) ==
    /\ \A n \in 1..Len(run_generated) :
          \E m \in 1..k : PagesInOrder(1)[m] = <<run_generated[n].base, run_generated[n].page>>
    /\ run_req.out_fmt # "dxf" =>
          /\ Len(run_generated) = k * TypesSelected
          /\ \A n \in 1..Len(run_generated) :
                /\ PagesInOrder(1)[((n - 1) \div TypesSelected) + 1] =
                       <<run_generated[n].base, run_generated[n].page>>
                /\ run_generated[n].typ =
                       IF run_req.include_geom /\ (TypesSelected = 1 \/ n % 2 = 1)
                       THEN "geom" ELSE "text"
    /\ (run_req.out_fmt = "dxf" /\ TypesSelected > 0) =>
          \A m \in 1..k : \E n \in 1..Len(run_generated) :
              PagesInOrder(1)[m] = <<run_generated[n].base, run_generated[n].page>>

\* the run is inside a page: past the cancellation check, before the next
InsidePage == run_pc \in {"dxf", "geom", "text", "progress"}

\* C7: a cancellation requested between two pages ends the run Canceled
\* (run returns False, no error recorded) at the next page's check with the
\* artifact list unchanged: exactly the artifacts of the pages completed; no
\* artifact is produced afterwards, and inside a page the run never returns
\* because of a cancellation.
C7_CancelBetweenPages ==
    /\ [](RunCanceled => ArtifactsOfFirstPages(run_processed))
    /\ [][/\ (run_canceled /\ run_pc = "pagecheck") =>
                (/\ run_pc' = "returned" /\ run_result' = "False"
                 /\ run_error' = "none" /\ run_generated' = run_generated)
          /\ RunReturned => run_generated' = run_generated
          /\ InsidePage => (run_result' = "none" \/ run_error' # "none")]_vars

\* C7 witness: canceled after page 1 of a document with more pages: run has
\* returned False without error, the two artifacts of page 1 are there
C7_Witness ==
    /\ RunCanceled /\ run_canceled
    /\ run_req.out_fmt # "dxf"
    /\ run_processed = 1 /\ run_total >= 2
    /\ Len(run_generated) = 2
    /\ run_generated[1].page = 1 /\ run_generated[2].page = 1

\* the sum of the clamped page counts of the request's openable documents
\* from document k on
RECURSIVE SumRangeCounts(_)
SumRangeCounts(k) ==
    IF k > Len(run_req.docs) THEN 0
    ELSE (IF run_req.docs[k].openable THEN RangeCount(run_req.docs[k].pages) ELSE 0)
         + SumRangeCounts(k + 1)

\* T: the sum of the clamped per-document page counts, 1 when that is 0
TotalPages == IF SumRangeCounts(1) = 0 THEN 1 ELSE SumRangeCounts(1)

\* floor(100 * k / T)
FloorPercent(k, T) == (100 * k) \div T

\* k / T and (k / T) * 100 are exactly representable floats
ExactPercent(k, T) ==
    /\ FDiv(Rat(k), Rat(T)) = RDiv(Rat(k), Rat(T))
    /\ FMul(RDiv(Rat(k), Rat(T)), Rat(100)) = RMul(RDiv(Rat(k), Rat(T)), Rat(100))

\* C17: the progress value reported after the k-th processed page is
\* floor(100 * k / T), T the sum of the clamped per-document page counts
\* computed before any page is processed; so the reported values never
\* decrease and lie in [0, 100].
C17_ProgressIsFloor ==
    run_progress # <<>> =>
        /\ run_total = TotalPages
        /\ \A k \in 1..Len(run_progress) :
              /\ run_progress[k] = FloorPercent(k, TotalPages)
              /\ run_progress[k] >= 0 /\ run_progress[k] <= 100
              /\ k > 1 => run_progress[k] >= run_progress[k - 1]

\* C17 as the code has it: the value is floor(100 * k / T) when k / T and its
\* product with 100 are exact in floating point and within rounding of it
\* otherwise, it is 100 for k = T, and the values never decrease and lie in
\* [0, 100].
C17_ProgressMonotoneFloorWhenExact ==
    run_progress # <<>> =>
        /\ run_total = TotalPages
        /\ Len(run_progress) <= TotalPages
        /\ \A k \in 1..Len(run_progress) :
              /\ ExactPercent(k, TotalPages) => run_progress[k] = FloorPercent(k, TotalPages)
              /\ k = TotalPages => run_progress[k] = 100
              /\ run_progress[k] >= 0 /\ run_progress[k] <= 100
              /\ k > 1 => run_progress[k] >= run_progress[k - 1]

\* C17 witness: three pages of a total of three were processed; the first
\* value reported is not floor(100 / 3), the last is 100
C17_Witness ==
    /\ run_total = 3 /\ Len(run_progress) = 3
    /\ run_progress[1] # FloorPercent(1, 3)
    /\ run_progress[1] <= run_progress[2]
    /\ run_progress[3] = 100

\* the run ended Failed: run returned False with an error recorded
RunFailed == RunReturned /\ run_result = "False" /\ run_error # "none"

\* a source document of the request cannot be opened
SomeDocUnopenable == \E k \in 1..Len(run_req.docs) : ~run_req.docs[k].openable

\* C18: if a source document of the request cannot be opened, the run ends
\* Failed, with the error recorded and reported as a failure; it does not
\* end Completed with that document left out.
C18_UnopenableDocumentFails ==
    (SomeDocUnopenable /\ ~run_canceled) =>
        /\ RunReturned => RunFailed
        /\ run_pc = "finished" => run_reported = "failure"

\* the exception recorded came out of a page writer (the writer could not be
\* created, or the extraction call raised)
PageWriterRaised == run_error \in {"_write_geometry", "_write_text"}

\* C19: an error of a page writer does not end the run: the remaining pages
\* are processed and the run ends Completed.
C19_PageErrorDoesNotEndRun ==
    (RunReturned /\ PageWriterRaised) => RunCompleted

\* C20: with CAD format requested, a failure of the direct emission of a page
\* never puts the run in state Failed: short of a cancellation or an error of
\* a tabular writer fallen back on, the run ends Completed.
C20_DxfFailureNeverFails ==
    (/\ run_req.out_fmt = "dxf" /\ RunReturned
     /\ ~run_canceled /\ ~PageWriterRaised) => RunCompleted

\* the entries of generated for page m of the only document processed
ArtifactsOfPage(m) ==
    {n \in 1..Len(run_generated) :
        <<run_generated[n].base, run_generated[n].page>> = PagesInOrder(1)[m]}

\* the types of the artifacts of page m
TypesOfPage(m) == {run_generated[n].typ : n \in ArtifactsOfPage(m)}

\* the tabular types selected by the request
SelectedTypes ==
    (IF run_req.include_geom THEN {"geom"} ELSE {})
    \cup (IF run_req.include_text THEN {"text"} ELSE {})

\* C20, the fallback where the warning could be logged: in a completed DXF
\* run of one document every page has its .dxf artifact or, in its place, the
\* tabular artifacts of the selected content types, and one warning was
\* logged for every page without .dxf artifact.
C20_FallbackWhenLogged ==
    (run_req.out_fmt = "dxf" /\ RunCompleted /\ Len(run_files) = 1) =>
        /\ \A m \in 1..Len(PagesInOrder(1)) :
              TypesOfPage(m) = {"dxf"} \/ TypesOfPage(m) = SelectedTypes
        /\ run_warnings =
              Cardinality({m \in 1..Len(PagesInOrder(1)) : "dxf" \notin TypesOfPage(m)})

\* the pages <<k, page>> of the request in the order claimed: document k of
\* the request (from document k0 on) in request order, its pages
\* max(1, pageFrom) .. min(P, pageTo) ascending; a document that cannot be
\* opened has no page
RECURSIVE ExpectedPages(_)
ExpectedPages(k0) ==
    IF k0 > Len(run_req.docs) THEN <<>>
    ELSE (IF run_req.docs[k0].openable
          THEN [p \in 1..RangeCount(run_req.docs[k0].pages) |-> <<k0, FirstPage + p - 1>>]
          ELSE <<>>)
         \o ExpectedPages(k0 + 1)

\* the page being processed: the document's position in the request, the
\* 1-based page number
CurrentPage == <<RunFile.k, run_i + 1>>

\* C21: the pages processed are those numbered max(1, pageFrom) ..
\* min(P, pageTo) of each document, each once, ascending, the documents in
\* request order and one document finished before the next starts; a
\* document whose range is empty has no page processed and no artifact.
C21_PagesInRangeInOrder ==
    /\ InsidePage =>
          /\ run_processed < Len(ExpectedPages(1))
          /\ CurrentPage = ExpectedPages(1)[run_processed + 1]
    /\ RunCompleted => run_processed = Len(ExpectedPages(1))
    /\ \A n \in 1..Len(run_generated) :
          \E m \in 1..Len(ExpectedPages(1)) :
              /\ m <= run_processed + 1
              /\ run_req.docs[ExpectedPages(1)[m][1]].base = run_generated[n].base
              /\ ExpectedPages(1)[m][2] = run_generated[n].page

\* C21 witness: a request of two documents, range 2..2, completed: page 2 of
\* the first document was processed, the second has one page and an empty
\* range, and nothing was produced for it
C21_Witness ==
    /\ RunCompleted /\ Len(run_req.docs) = 2
    /\ run_req.docs[1].openable /\ run_req.docs[2].openable
    /\ run_req.docs[1].base # run_req.docs[2].base
    /\ run_req.page_from = 2
    /\ RangeCount(run_req.docs[2].pages) = 0
    /\ run_processed = 1 /\ Len(run_generated) >= 1
    /\ \A n \in 1..Len(run_generated) : run_generated[n].base = run_req.docs[1].base

\* C21 witness, several pages: two documents of two pages each completed,
\* four pages processed
C21_WitnessFourPages ==
    /\ RunCompleted /\ Len(run_req.docs) = 2 /\ run_processed = 4

\* the terminal state of a run is fixed by what run returned and recorded
C22_TerminalState ==
    /\ ~RunReturned => run_result = "none"
    /\ RunReturned =>
          /\ (RunCompleted /\ ~RunCanceled /\ ~RunFailed)
             \/ (~RunCompleted /\ RunCanceled /\ ~RunFailed)
             \/ (~RunCompleted /\ ~RunCanceled /\ RunFailed)
          /\ RunCompleted => run_processed = Len(ExpectedPages(1)) /\ run_error = "none"
          /\ RunCanceled => run_canceled
          /\ RunFailed => run_error \in {"_write_geometry", "_write_text", "logMessage"}
          /\ (RunFailed /\ run_pc = "finished") => run_reported = "failure"

\* C22: every started run reaches exactly one terminal state: Completed
\* only if every page of the clamped range of every opened document was
\* processed, Canceled only if cancellation was requested (no error
\* recorded, the artifacts kept), Failed only if an exception left a call
\* made by run (recorded, and reported as a failure); after the terminal
\* state nothing is appended to the artifacts, no progress is reported and
\* the terminal state does not change.
C22_ExactlyOneTerminalState ==
    /\ <>RunReturned
    /\ []C22_TerminalState
    /\ [][RunReturned => /\ run_generated' = run_generated
                         /\ run_progress' = run_progress
                         /\ run_result' = run_result
                         /\ run_error' = run_error]_vars

\* C22 witness: a run canceled between two pages, after finished(): the
\* artifacts of the pages done are in the list and no error is recorded
C22_Witness ==
    /\ RunCanceled /\ run_pc = "finished"
    /\ run_processed >= 1 /\ Len(run_generated) >= 1

\* C22 witnesses: a failed run reported as a failure, a completed run of
\* four pages
C22_WitnessFailed == RunFailed /\ run_pc = "finished" /\ run_reported = "failure"
C22_WitnessCompleted == RunCompleted /\ run_pc = "finished" /\ run_processed = 4

-----------------------------------------------------------------------------
(* Claims about the emitters, continued (SpecEmit) *)

\* what _write_geometry writes for the item at position p of the same page
\* under the same crop, min_size and skip_curves, in page coordinates (no
\* canvas offset): NoFeature when the drawing or the item is passed over
TabularFeatureAt(p) ==
    IF PreCheckSkips(em_page[p[1]], em_crop) THEN NoFeature
    ELSE WriteGeometryFeature(em_page[p[1]].items[p[2]], em_crop, em_min_size,
                              em_skip_curves, Rat(0), Rat(0), PageH)

\* C23: for the same page, crop region, minSize and skipCurves the direct
\* CAD emission of the task writes one entity for exactly the drawing items
\* for which _write_geometry writes a feature, built from the same clipped
\* points.
C23_CadEmitsWhatTabularEmits ==
    (em_fn = "dxf_direct" /\ GeometryEmitted) =>
        /\ \A p \in ItemPositions : EmittedFor(p) <=> TabularFeatureAt(p) # NoFeature
        /\ \A n \in 1..Len(em_geom) :
              em_geom[n].pts = TabularFeatureAt(<<em_geom[n].d, em_geom[n].i>>).pts


-----------------------------------------------------------------------------
(* Claims about PdfToDxfAlgorithm.processAlgorithm (SpecAlg) *)

\* no dependency missing (fitz is PyMuPDF), the input PDF exists, the output
\* path is not empty
AlgPrecondition ==
    /\ ~alg_req.missing_deps /\ alg_req.fitz_has_open
    /\ alg_req.source_path # "" /\ alg_req.source_exists
    /\ alg_req.output_path # NoPath

\* C24: with no dependency missing, an existing input PDF and a non-empty
\* output path, processAlgorithm reaches the conversion of the pages in
\* convert_pdf_to_vector, does not raise "Conversion failed", and returns
\* the output path with the extension of the selected format, for each of
\* the three formats.
C24_ProcessAlgorithmConverts ==
    AlgPrecondition =>
        /\ alg_exc # "Conversion failed"
        /\ alg_pc = "done" =>
              /\ alg_converted
              /\ alg_ret # "none" /\ Lower(alg_ret.ext) = FormatExt(alg_req.output_format)

-----------------------------------------------------------------------------
(* Claims about the emitters, continued (SpecEmit) *)

\* a point without usable coordinates: neither indexable with two numbers
\* nor an object with numeric x and y
NoCoordinates(v) ==
    /\ ~IndexableXY(v)
    /\ ~(v.kind = "obj" /\ Len(v.c) >= 2 /\ IsNumber(v.c[1]) /\ IsNumber(v.c[2]))

\* the item at position p is a two-point line whose first point has no
\* usable coordinates, in a drawing the emitter visits, with no size filter
LineWithBadPoint(p) ==
    /\ Visited(p) /\ em_min_size = Rat(0)
    /\ em_page[p[1]].items[p[2]].cmd = "l"
    /\ HasArg(em_page[p[1]].items[p[2]], 2)
    /\ NoCoordinates(em_page[p[1]].items[p[2]].a[1])

\* the line of position p was written with its first point where (0, 0) goes
WrittenAtOrigin(p) ==
    \E n \in 1..Len(em_geom) :
        /\ em_geom[n].d = p[1] /\ em_geom[n].i = p[2]
        /\ em_geom[n].pts[1] = Place(Rat(0), Rat(0), EmGeomOffset[1], EmGeomOffset[2], PageH)

\* C25: a point whose coordinates are degenerate or non-numeric is treated
\* as (0, 0) and transformed to (offsetX, pageHeight + offsetY) in every
\* emitter that transforms points, the algorithm's writer and the task's
\* tabular writer alike; it never makes the transform fail.
C25_BadPointGoesToOrigin ==
    (em_fn \in {"write_geometry", "create_geometry_layer"} /\ GeometryEmitted) =>
        \A p \in ItemPositions : LineWithBadPoint(p) => WrittenAtOrigin(p)

\* the same for the algorithm's writer alone, which transforms through
\* _simple_transform
C25_AlgorithmWriterFallback ==
    (em_fn = "create_geometry_layer" /\ GeometryEmitted) =>
        \A p \in ItemPositions : LineWithBadPoint(p) => WrittenAtOrigin(p)

\* a line with a bad point has been through the algorithm's writer
C25_AlgorithmWriterWitness ==
    /\ em_fn = "create_geometry_layer" /\ GeometryEmitted
    /\ \E p \in ItemPositions : LineWithBadPoint(p) /\ WrittenAtOrigin(p)

-----------------------------------------------------------------------------
(* Claims about clip_line_to_rect, continued (SpecClip) *)

\* the pass of the loop that comes next replaces an endpoint
ClipAboutToDivide ==
    /\ clip.ret = "running"
    /\ ~(clip.code1 = 0 /\ clip.code2 = 0)
    /\ BitAnd(clip.code1, clip.code2) = 0

C26_WitnessHorizontal ==
    clip.ret \in {"tuple", "None"} /\ args.y1 = args.y2 /\ args.x1 # args.x2 /\ clip.nrepl >= 1
C26_WitnessVertical ==
    clip.ret \in {"tuple", "None"} /\ args.x1 = args.x2 /\ args.y1 # args.y2 /\ clip.nrepl >= 1
C26_WitnessZeroLength ==
    clip.ret = "None" /\ args.x1 = args.x2 /\ args.y1 = args.y2

-----------------------------------------------------------------------------
(* Claims about PdfToVectorTask.run, continued (SpecRun) *)

\* the path of an artifact is out_dir/<base>_p<page>[_geom|_text]<ext>: two
\* entries of self.generated have the same path iff they agree on base,
\* page, type and extension
SamePath(a, b) == a.base = b.base /\ a.page = b.page /\ a.typ = b.typ /\ a.ext = b.ext

\* C27: in every reachable state of a run no two entries of the generated
\* artifact list have the same path, whatever the list of source documents
\* (documents of different directories with the same base file name, the
\* same document listed twice).
C27_ArtifactPathsDistinct ==
    \A i, j \in 1..Len(run_generated) :
        i # j => ~SamePath(run_generated[i], run_generated[j])

\* what an entry of self.generated holds.  A _text artifact is written by
\* _write_text and a _geom artifact by _write_geometry.  A .dxf artifact is
\* written by convert_pdf_page_to_dxf_direct, which run calls with the page,
\* the path, the crop, min_size and skip_curves only: it adds an MTEXT for
\* every non-blank span of the page and, "item" being unbound, no geometry
\* entity.
HoldsText(a) == a.typ \in {"text", "dxf"}
HoldsGeometry(a) == a.typ = "geom"

\* C28: the content selection is honoured in every format, DXF included: in
\* a run with include_text false no artifact holds text features or text
\* annotations, in a run with include_geom false no artifact holds geometry
\* (at least one of the two is selected).
C28_ContentSelectionHonoured ==
    (run_req.include_geom \/ run_req.include_text) =>
        /\ ~run_req.include_text =>
              \A n \in 1..Len(run_generated) : ~HoldsText(run_generated[n])
        /\ ~run_req.include_geom =>
              \A n \in 1..Len(run_generated) : ~HoldsGeometry(run_generated[n])

\* the same for the tabular formats alone
C28_TabularSelectionHonoured ==
    run_req.out_fmt \in {"shp", "geojson"} => C28_ContentSelectionHonoured

-----------------------------------------------------------------------------
(* Claims about the emitters, continued (SpecEmit) *)

\* the task's direct CAD emission has written the text of a page: it takes
\* no content selection
C28_DxfDirectWroteText == em_fn = "dxf_direct" /\ em_pc = "done" /\ em_text # <<>>

-----------------------------------------------------------------------------
(* Claims about PdfToVectorTask.run, continued (SpecRun) *)

\* C29: when a run reaches a terminal state (Completed, Canceled during the
\* pre-count, Canceled between pages, Failed), every source document it
\* opened has been closed.
C29_DocumentsClosedAtEnd == RunReturned => run_open = {}

\* the same for completed runs alone
C29_ClosedWhenCompleted == RunCompleted => run_open = {}

-----------------------------------------------------------------------------
(* Claims about the emitters, continued (SpecEmit) *)

\* max(|dx|, |dy|) of the segment that clip_line_to_rect returns for the
\* line item under the crop, in page coordinates
ClippedExtent(item, crop) ==
    LET c == clip_line_to_rect(PX(item.a[1]), PY(item.a[1]),
                               PX(item.a[2]), PY(item.a[2]), AsRect(crop))
    IN  RMax(RAbs(RSub(c.x2, c.x1)), RAbs(RSub(c.y2, c.y1)))

\* C30: with min_size > 0 and a crop region set, every line feature emitted
\* has max(|dx|, |dy|) >= min_size measured on the emitted, clipped segment.
C30_EmittedLinesNotSmall ==
    (em_fn = "write_geometry" /\ Truthy(em_crop) /\ RLt(Rat(0), em_min_size)) =>
        \A n \in 1..Len(em_geom) :
            em_geom[n].type = "line" =>
                RLe(em_min_size, ClippedExtent(ItemOf(em_geom[n]), em_crop))

\* the same measured on the item before clipping
C30_EmittedLinesNotSmallUnclipped ==
    (em_fn = "write_geometry" /\ Truthy(em_crop) /\ RLt(Rat(0), em_min_size)) =>
        \A n \in 1..Len(em_geom) :
            em_geom[n].type = "line" =>
                RLe(em_min_size, MaxExtent(ItemOf(em_geom[n])))

====
